---- MODULE Spec2Model ----
(***************************************************************************)
(* A model of the 2D text layout engine of p5.js (text2d).                 *)
(*                                                                         *)
(* Lengths (sizes, leadings, heights) are integers in thousandths of a     *)
(* pixel, so that size * 1.275 is exact.  Strings of text are sequences of *)
(* one-character strings.  The JavaScript value `undefined` of a numeric   *)
(* argument is the integer Undefined.  A numeric font weight is held as    *)
(* its decimal string, the form it takes in the font string.  The number   *)
(* NaN is the integer NaN; no length of the model is -1 or -2.             *)
(***************************************************************************)
EXTENDS Integers, Sequences, FiniteSets, TLC

VARIABLES
    states,        \* this.states: the typography state of the renderer
    ctx,           \* this.textDrawingContext(): the canvas 2D context
    contextQueue,  \* the module-level queue of pending context writes
    canvasStyle,   \* this.canvas.style
    warnings,      \* what the last public call reported with console.warn
    op,            \* the public call that produced this state
    resized,       \* whether that call changed states.textSize
    pc,            \* "idle" before a layout call, "done" after it
    str,           \* argument of the layout call
    width,         \* argument of the layout call (Undefined when omitted)
    height,        \* argument of the layout call (Undefined when omitted)
    lines,         \* the lines the line processor returned
    err,           \* the error the layout call threw ("" when none)
    commits,       \* the candidate lines on which _lineate committed a line
    applied,       \* whether the last public call ran _applyTextProperties
    unresolved,    \* whether it was given a size no length resolves
    rectMode,      \* this.states.rectMode
    layout,        \* position, lines and boxes of the last text or bounds call
    other,         \* a second renderer of the sketch: its states, context
                   \* and canvas style
    writes         \* the assignments the last public call made to the
                   \* context in its apply cycles: <<site, property, value>>

vars == <<states, ctx, contextQueue, canvasStyle, warnings, op, resized,
          pc, str, width, height, lines, err, commits,
          applied, unresolved, rectMode, layout, writes, other>>

layoutVars == <<pc, str, width, height, lines, err, commits, rectMode, layout>>

-----------------------------------------------------------------------------
(* Constants of the program *)

Milli == 1000
LeadingScale == 1275      \* 1.275, in thousandths
Undefined == -1
NaN == -2
UndefinedStr == "undefined"

LEFT == "left"
CENTER == "center"
RIGHT == "right"
START == "start"
END == "end"
TOP == "top"
BOTTOM == "bottom"
BASELINE == "alphabetic"
_CTX_MIDDLE == "middle"
HANGING == "hanging"
IDEOGRAPHIC == "ideographic"
NORMAL == "normal"
CORNER == "corner"
CORNERS == "corners"
RADIUS == "radius"
WORD == "WORD"
CHAR == "CHAR"

FontStretchKeys ==
    {"ultra-condensed", "extra-condensed", "condensed", "semi-condensed",
     "normal", "semi-expanded", "expanded", "extra-expanded", "ultra-expanded"}

\* The defaults of RendererTextProps, with the fields the text functions add.
RendererTextProps ==
    [textAlign    |-> LEFT,
     textBaseline |-> BASELINE,
     textFont     |-> "sans-serif",
     textLeading  |-> 15 * Milli,
     textSize     |-> 12 * Milli,
     textWrap     |-> WORD,
     fontStretch  |-> NORMAL,
     fontWeight   |-> NORMAL,
     lineHeight   |-> NORMAL,
     fontVariant  |-> NORMAL,
     fontStyle    |-> NORMAL,
     direction    |-> "inherit",
     leadingSet   |-> FALSE]

-----------------------------------------------------------------------------
(* Bounds of the model *)

MaxLen == 4            \* longest enumerated input string
MaxWidth == 5          \* widest width constraint
MaxHeightUnits == 4    \* tallest height constraint, in HeightUnits
LetterAdvance == 1     \* advance of a letter in the measured font
SpaceAdvance == 1      \* advance of a space in the measured font

HeightUnit == (15 * Milli) \div 2

Alphabet == {"a", " ", "\n"}

ExtraStrs ==
    { <<"a", "b", " ", "c", "d", " ", "e", "f">>,
      <<"l", "1", "\n", "l", "2">>,
      <<"a", " ", "b", " ", "c">>,
      <<"a", "\t", "b">>,
      <<"\t", "a">>,
      <<"a", "\r", "\n", "b">>,
      <<"a", " ", " ", "b", " ">>,
      <<"a", " ", "b", " ", "c", "d", "e", "f">>,
      <<"a", "b", "c", "d", " ", "e", "\n", "f">> }

Strs == UNION {[1..n -> Alphabet] : n \in 0..MaxLen} \cup ExtraStrs
WidthArgs == {Undefined} \cup 0..MaxWidth
HeightArgs == {Undefined} \cup {k * HeightUnit : k \in 0..MaxHeightUnits}

-----------------------------------------------------------------------------
(* The Metrics Provider: CanvasRenderingContext2D.measureText *)

IsSpace(c) == c \in {" ", "\t", "\r", "\n"}

RECURSIVE TrimStart(_)
TrimStart(s) ==
    IF Len(s) > 0 /\ IsSpace(Head(s)) THEN TrimStart(Tail(s)) ELSE s

RECURSIVE TrimEnd(_)
TrimEnd(s) ==
    IF Len(s) > 0 /\ IsSpace(s[Len(s)])
    THEN TrimEnd(SubSeq(s, 1, Len(s) - 1)) ELSE s

\* String.prototype.trim
Trim(s) == TrimEnd(TrimStart(s))

GlyphAdvance(c) ==
    IF c = " " THEN SpaceAdvance
    ELSE IF IsSpace(c) THEN 0
    ELSE LetterAdvance

RECURSIVE AdvanceWidth(_)
\* measureText(s).width: the sum of the advances
AdvanceWidth(s) ==
    IF Len(s) = 0 THEN 0 ELSE GlyphAdvance(Head(s)) + AdvanceWidth(Tail(s))

\* actualBoundingBoxLeft + actualBoundingBoxRight: the extent of the ink, which
\* white space at either end of the string does not extend
InkWidth(s) == AdvanceWidth(Trim(s))

_textWidthSingle(s) == InkWidth(s)

-----------------------------------------------------------------------------
(* The line processor *)

RECURSIVE ExpandTabs(_)
\* s.replace(TabsRe, '  ')
ExpandTabs(s) ==
    IF Len(s) = 0 THEN <<>>
    ELSE (IF Head(s) = "\t" THEN <<" ", " ">> ELSE <<Head(s)>>)
         \o ExpandTabs(Tail(s))

RECURSIVE SplitLinebreaks(_, _, _)
\* s.split(LinebreakRe), LinebreakRe = /\r?\n/g
SplitLinebreaks(s, cur, out) ==
    IF Len(s) = 0 THEN Append(out, cur)
    ELSE IF Head(s) = "\n"
    THEN SplitLinebreaks(Tail(s), <<>>, Append(out, cur))
    ELSE IF Head(s) = "\r" /\ Len(s) > 1 /\ s[2] = "\n"
    THEN SplitLinebreaks(Tail(Tail(s)), <<>>, Append(out, cur))
    ELSE SplitLinebreaks(Tail(s), Append(cur, Head(s)), out)

_splitOnBreaks(s) ==
    IF Len(s) = 0 THEN << <<>> >>
    ELSE SplitLinebreaks(ExpandTabs(s), <<>>, <<>>)

RECURSIVE SplitOnChar(_, _, _, _)
\* line.split(' ')
SplitOnChar(s, c, cur, out) ==
    IF Len(s) = 0 THEN Append(out, cur)
    ELSE IF Head(s) = c
    THEN SplitOnChar(Tail(s), c, <<>>, Append(out, cur))
    ELSE SplitOnChar(Tail(s), c, Append(cur, Head(s)), out)

\* line.split(splitter): on spaces, or into characters for the empty splitter
SplitWords(line, splitter) ==
    IF splitter = <<>>
    THEN [i \in 1..Len(line) |-> <<line[i]>>]
    ELSE SplitOnChar(line, splitter[1], <<>>, <<>>)

\* A loop body that measures the line it has, not the candidate line
LineateWord_MeasuresLine(acc, word, splitter, maxWidth) ==
    LET testLine == acc.line \o word \o splitter
        testWidth == _textWidthSingle(acc.line)
    IN  IF Len(acc.line) > 0 /\ testWidth > maxWidth
        THEN [line     |-> word \o splitter,
              newLines |-> Append(acc.newLines, Trim(acc.line)),
              commits  |-> Append(acc.commits,
                                  [line |-> acc.line, testLine |-> testLine])]
        ELSE [acc EXCEPT !.line = testLine]

\* A loop body that commits the line when the candidate exactly fits
LineateWord_CommitsAtEqual(acc, word, splitter, maxWidth) ==
    LET testLine == acc.line \o word \o splitter
        testWidth == _textWidthSingle(testLine)
    IN  IF Len(acc.line) > 0 /\ testWidth >= maxWidth
        THEN [line     |-> word \o splitter,
              newLines |-> Append(acc.newLines, Trim(acc.line)),
              commits  |-> Append(acc.commits,
                                  [line |-> acc.line, testLine |-> testLine])]
        ELSE [acc EXCEPT !.line = testLine]

\* The body of the loop over the words of one line
LineateWord(acc, word, splitter, maxWidth) ==
    LET testLine == acc.line \o word \o splitter
        testWidth == _textWidthSingle(testLine)
    IN  IF Len(acc.line) > 0 /\ testWidth > maxWidth
        THEN [line     |-> word \o splitter,
              newLines |-> Append(acc.newLines, Trim(acc.line)),
              commits  |-> Append(acc.commits,
                                  [line |-> acc.line, testLine |-> testLine])]
        ELSE [acc EXCEPT !.line = testLine]

RECURSIVE LineateWords(_, _, _, _)
LineateWords(acc, words, splitter, maxWidth) ==
    IF Len(words) = 0 THEN acc
    ELSE LineateWords(LineateWord(acc, Head(words), splitter, maxWidth),
                      Tail(words), splitter, maxWidth)

RECURSIVE LineateLines_NoFlush(_, _, _, _)
\* A loop that drops the running line at the end of each line
LineateLines_NoFlush(acc, ls, splitter, maxWidth) ==
    IF Len(ls) = 0 THEN acc
    ELSE LineateLines_NoFlush(
             LineateWords([acc EXCEPT !.line = <<>>],
                          SplitWords(Head(ls), splitter),
                          splitter, maxWidth),
             Tail(ls), splitter, maxWidth)

RECURSIVE LineateLines(_, _, _, _)
\* The loop over the lines: each starts an empty running line and flushes it
LineateLines(acc, ls, splitter, maxWidth) ==
    IF Len(ls) = 0 THEN acc
    ELSE LET r == LineateWords([acc EXCEPT !.line = <<>>],
                               SplitWords(Head(ls), splitter),
                               splitter, maxWidth)
         IN  LineateLines([r EXCEPT !.newLines = Append(r.newLines, Trim(r.line))],
                          Tail(ls), splitter, maxWidth)

_lineate(textWrap, ls, maxWidth) ==
    LET splitter == IF textWrap = WORD THEN <<" ">> ELSE <<>>
    IN  LineateLines([line |-> <<>>, newLines |-> <<>>, commits |-> <<>>],
                     ls, splitter, maxWidth)

\* JavaScript arithmetic: an operation on NaN or undefined gives NaN, and a
\* comparison with NaN is false
IsNum(a) == a # NaN /\ a # Undefined
Plus(a, b) == IF IsNum(a) /\ IsNum(b) THEN a + b ELSE NaN
Minus(a, b) == IF IsNum(a) /\ IsNum(b) THEN a - b ELSE NaN
Times(a, k) == IF IsNum(a) THEN a * k ELSE NaN
Half(a) == IF IsNum(a) THEN a \div 2 ELSE NaN
Greater(a, b) == IsNum(a) /\ IsNum(b) /\ a > b

\* A truncation that drops a line whose bottom is exactly at the height
TruncateLines_DropsExactFit(ls, leading, h) ==
    LET over == {i \in 1..Len(ls) : leading * i >= h}
    IN  IF over = {} THEN ls
        ELSE SubSeq(ls, 1, (CHOOSE i \in over : \A j \in over : i <= j) - 1)

\* A truncation that keeps the lines from the cut onward
TruncateLines_DropsFromFront(ls, leading, h) ==
    LET over == {i \in 1..Len(ls) : leading * i > h}
    IN  IF over = {} THEN ls
        ELSE SubSeq(ls, CHOOSE i \in over : \A j \in over : i <= j, Len(ls))

\* The truncation loop: cut at the first line whose bottom exceeds the height
TruncateLines(ls, leading, h) ==
    LET over == {i \in 1..Len(ls) : Greater(Times(leading, i), h)}
    IN  IF over = {} THEN ls
        ELSE SubSeq(ls, 1, (CHOOSE i \in over : \A j \in over : i <= j) - 1)

\* A guard that calls _lineate whenever a width is given
ShouldLineate_WheneverWidth(hasLineBreaks, exceedsWidth, hasWidth) == hasWidth

\* A guard that calls _lineate for any string with a break
ShouldLineate_IgnoresWidth(hasLineBreaks, exceedsWidth, hasWidth) ==
    hasLineBreaks \/ exceedsWidth

\* The test that guards the call of _lineate
ShouldLineate(hasLineBreaks, exceedsWidth, hasWidth) ==
    (hasLineBreaks \/ exceedsWidth) /\ hasWidth

\* A guard that truncates whenever a height is given
ShouldTruncate_IgnoresWidth(hasWidth, h) == h # Undefined

\* The test that guards the truncation
ShouldTruncate(hasWidth, h) == hasWidth /\ h # Undefined

MissingLeading == "leading is required if height is specified"

\* A test that never finds the leading missing
LeadingMissing_Never(leading) == FALSE

\* The test that guards the error: no leading in the typography state
LeadingMissing(leading) == leading = Undefined

_processLines(s, w, h) ==
    LET split == _splitOnBreaks(s)
        hasLineBreaks == Len(split) > 1
        hasWidth == w # Undefined
        exceedsWidth == hasWidth /\ \E i \in 1..Len(split) :
                                        _textWidthSingle(split[i]) > w
        leading == states.textLeading
        wrapped == IF ShouldLineate(hasLineBreaks, exceedsWidth, hasWidth)
                   THEN _lineate(states.textWrap, split, w)
                   ELSE [line |-> <<>>, newLines |-> split, commits |-> <<>>]
        baseline == IF hasWidth /\ ctx.textBaseline = BASELINE
                    THEN TOP ELSE ctx.textBaseline
    IN  IF ShouldTruncate(hasWidth, h)
        THEN IF LeadingMissing(leading)
             THEN [lines |-> <<>>, commits |-> wrapped.commits,
                   err |-> MissingLeading,
                   textBaseline |-> baseline]
             ELSE [lines |-> TruncateLines(wrapped.newLines, leading, h),
                   commits |-> wrapped.commits, err |-> "",
                   textBaseline |-> baseline]
        ELSE [lines |-> wrapped.newLines, commits |-> wrapped.commits,
              err |-> "", textBaseline |-> baseline]

-----------------------------------------------------------------------------
(* The backend: the canvas 2D context and the style of the canvas element *)

\* Argument sets of the setters
SizeStringArgs == {"20", "2em", "huge"}
InvalidArgs == {"bogus"}
AlignArgs == {CENTER} \cup InvalidArgs
VAlignArgs == {UndefinedStr, CENTER}
SizeArgs == {12 * Milli, 20 * Milli}
LeadingArgs == {HeightUnit, 30 * Milli}
FamilyArgs == {"Comic Sans MS"}
StyleArgs == {"italic"}
WeightArgs == {"700"}
DirectionArgs == {"rtl"}
WrapArgs == {WORD, CHAR}

\* `${n}px` for a length n
PxString(n) ==
    IF n = NaN THEN "NaNpx"
    ELSE IF n % Milli = 0 THEN ToString(n \div Milli) \o "px"
    ELSE ToString(n \div Milli) \o "." \o ToString(n % Milli) \o "px"

HasSpace(part) == part \in {"Comic Sans MS", "\"Comic Sans MS\""}
Quoted(part) == part \in {"\"Comic Sans MS\""}

\* One family name: quoted when it holds a space and is not yet quoted
_parseFontFamily(familyStr) ==
    IF HasSpace(familyStr) /\ ~Quoted(familyStr)
    THEN "\"" \o familyStr \o "\"" ELSE familyStr

\* A template that puts the weight before the variant
ComposeFont_WeightFirst(fontStyle, fontVariant, fontWeight, textSize, lineHeight, family) ==
    LET style == IF fontStyle # NORMAL THEN <<fontStyle>> ELSE <<>>
        weight == IF fontWeight # NORMAL THEN <<fontWeight>> ELSE <<>>
        variant == IF fontVariant # NORMAL THEN <<fontVariant>> ELSE <<>>
        fsize == PxString(textSize)
                 \o (IF lineHeight # NORMAL THEN "/" \o lineHeight ELSE "")
    IN  style \o weight \o variant \o <<fsize>> \o <<family>>

\* The template of _applyFontString.  A font string is held as the sequence
\* of the fields the template separates by single spaces.
ComposeFont(fontStyle, fontVariant, fontWeight, textSize, lineHeight, family) ==
    LET style == IF fontStyle # NORMAL THEN <<fontStyle>> ELSE <<>>
        weight == IF fontWeight # NORMAL THEN <<fontWeight>> ELSE <<>>
        variant == IF fontVariant # NORMAL THEN <<fontVariant>> ELSE <<>>
        fsize == PxString(textSize)
                 \o (IF lineHeight # NORMAL THEN "/" \o lineHeight ELSE "")
    IN  style \o variant \o weight \o <<fsize>> \o <<family>>

FontString(st) ==
    ComposeFont(st.fontStyle, st.fontVariant, st.fontWeight, st.textSize,
                st.lineHeight, _parseFontFamily(st.textFont))

\* The values a canvas accepts for the text properties of the context
CssFontStyles == {"italic", "oblique"}
CssFontVariants == {"small-caps"}
CssFontWeights == {"bold", "700"}
InheritedSize == 16 * Milli
CssFontSizes == SizeArgs \cup {10 * Milli, InheritedSize, 2 * InheritedSize}
CssLineHeights == {"1.5"}
CssFamilies == {"sans-serif", "serif", "\"Comic Sans MS\""}

\* The size field of a font string, alone or followed by a line height
CssSizeFields ==
    [size : CssFontSizes, field : {""}]
    \cup [size : CssFontSizes, field : CssLineHeights]

SizeField(sf) ==
    PxString(sf.size) \o (IF sf.field = "" THEN "" ELSE "/" \o sf.field)

\* The font strings the context can parse: style, variant and weight keywords
\* in any order, at most one of each, then the size and the family
CanvasParsesFont(f) ==
    /\ Len(f) \in 2..5
    /\ f[Len(f)] \in CssFamilies
    /\ \E sf \in CssSizeFields : SizeField(sf) = f[Len(f) - 1]
    /\ \A i \in 1..(Len(f) - 2) :
          f[i] \in CssFontStyles \cup CssFontVariants \cup CssFontWeights
    /\ \A i, j \in 1..(Len(f) - 2) :
          i # j => \A K \in {CssFontStyles, CssFontVariants, CssFontWeights} :
                       ~(f[i] \in K /\ f[j] \in K)

\* What the context reads back for a font string it parsed: the keywords in
\* the order style, variant, weight, and the line height dropped
CanvasFont(f) ==
    LET keys == {f[i] : i \in 1..(Len(f) - 2)}
        pick(K) == IF keys \cap K = {} THEN <<>>
                   ELSE <<CHOOSE k \in keys \cap K : TRUE>>
        sf == CHOOSE x \in CssSizeFields : SizeField(x) = f[Len(f) - 1]
    IN  pick(CssFontStyles) \o pick(CssFontVariants) \o pick(CssFontWeights)
        \o <<PxString(sf.size)>> \o <<f[Len(f)]>>

CanvasAccepts(prop, val) ==
    CASE prop = "font" -> CanvasParsesFont(val)
      [] prop = "direction" -> val \in {"ltr", "rtl", "inherit"}
      [] prop = "textAlign" -> val \in {START, END, LEFT, RIGHT, CENTER}
      [] prop = "textBaseline" ->
            val \in {TOP, HANGING, _CTX_MIDDLE, BASELINE, IDEOGRAPHIC, BOTTOM}
      [] prop = "fontStretch" -> val \in FontStretchKeys
      [] prop = "letterSpacing" -> val \in {"0px", "2px"}
      [] OTHER -> FALSE

\* context[prop] = val: a value the context cannot parse is ignored
CanvasWrite(c, prop, val) ==
    IF CanvasAccepts(prop, val)
    THEN [c EXCEPT ![prop] = IF prop = "font" THEN CanvasFont(val) ELSE val]
    ELSE c

\* A freshly created 2D context
CanvasDefaults ==
    [font          |-> <<"10px", "sans-serif">>,
     direction     |-> "inherit",
     textAlign     |-> START,
     textBaseline  |-> BASELINE,
     fontStretch   |-> NORMAL,
     letterSpacing |-> "0px"]

\* The inline style of the canvas element: nothing is set
StyleDefaults ==
    [fontVariationSettings |-> <<>>,
     fontStyle             |-> "",
     fontVariant           |-> "",
     fontWeight            |-> "",
     lineHeight            |-> ""]

-----------------------------------------------------------------------------
(* The renderer's internal methods, as functions of the renderer            *)
(* R = [states, ctx, queue, style, warnings, applied, unresolved, writes]   *)

\* context[prop] = val at the place site of the apply cycle
Assign(R, site, prop, val) ==
    [R EXCEPT !.ctx = CanvasWrite(R.ctx, prop, val),
              !.writes = Append(R.writes, <<site, prop, val>>)]

\* The font string is written and read back; the result of the comparison
\* is returned to a caller that does not read it, and nothing is reported
_applyFontString(R) == Assign(R, "font", "font", FontString(R.states))

UnableToSet == "Unable to set property on context2d"

\* One turn of the loop: [prop, val] is written and read back
DrainOne(R, prop, val) ==
    [Assign(R, "queue", prop, val) EXCEPT
        !.queue = Tail(R.queue),
        !.warnings = IF CanvasWrite(R.ctx, prop, val)[prop] # val
                     THEN Append(R.warnings, UnableToSet) ELSE R.warnings]

\* A loop that gives up at the first write the context does not take
RECURSIVE DrainQueue_StopsAtRejected(_)
DrainQueue_StopsAtRejected(R) ==
    IF Len(R.queue) = 0 THEN R
    ELSE IF CanvasWrite(R.ctx, Head(R.queue)[1], Head(R.queue)[2])
                [Head(R.queue)[1]] # Head(R.queue)[2]
    THEN [DrainOne(R, Head(R.queue)[1], Head(R.queue)[2]) EXCEPT !.queue = <<>>]
    ELSE DrainQueue_StopsAtRejected(
             DrainOne(R, Head(R.queue)[1], Head(R.queue)[2]))

\* A loop that takes the entries from the end of the queue
RECURSIVE DrainQueue_LastFirst(_)
DrainQueue_LastFirst(R) ==
    IF Len(R.queue) = 0 THEN R
    ELSE LET n == Len(R.queue)
             R1 == DrainOne(R, R.queue[n][1], R.queue[n][2])
         IN  DrainQueue_LastFirst(
                 [R1 EXCEPT !.queue = SubSeq(R.queue, 1, n - 1)])

RECURSIVE DrainQueue(_)
\* The loop that shifts each [prop, val] off the queue and writes it
DrainQueue(R) ==
    IF Len(R.queue) = 0 THEN R
    ELSE DrainQueue(DrainOne(R, Head(R.queue)[1], Head(R.queue)[2]))

\* The three properties written from the typography state after the font
ApplyStateProps(R) ==
    Assign(Assign(Assign(R, "direction", "direction", R.states.direction),
                  "textAlign", "textAlign", R.states.textAlign),
           "textBaseline", "textBaseline", R.states.textBaseline)

\* The stretch, written when it is a keyword and differs from the context's
ApplyStretch(R) ==
    IF R.states.fontStretch \in FontStretchKeys
       /\ R.ctx.fontStretch # R.states.fontStretch
    THEN Assign(R, "stretch", "fontStretch", R.states.fontStretch)
    ELSE R

\* An apply cycle that drains the queue before it writes the font string
_applyTextProperties_QueueFirst(R) ==
    [ApplyStretch(ApplyStateProps(_applyFontString(DrainQueue(R))))
        EXCEPT !.applied = TRUE]

_applyTextProperties(R) ==
    [DrainQueue(ApplyStretch(ApplyStateProps(_applyFontString(R))))
        EXCEPT !.applied = TRUE]

\* A _setContextProperty that queues the value whatever the context holds
_setContextProperty_Always(R, prop, val) ==
    [R EXCEPT !.queue = Append(R.queue, <<prop, val>>)]

_setContextProperty(R, prop, val) ==
    IF R.ctx[prop] = val THEN R
    ELSE [R EXCEPT !.queue = Append(R.queue, <<prop, val>>)]

\* this.states.textSize * LeadingScale
TimesLeadingScale(size) ==
    IF size = NaN THEN NaN ELSE (size * LeadingScale) \div Milli

\* A _setTextSize that recomputes the leading whatever the latch says
_setTextSize_NoLatch(R, theSize) ==
    IF theSize = NaN \/ R.states.textSize # theSize
    THEN [R EXCEPT !.states.textSize = theSize,
                   !.states.textLeading = TimesLeadingScale(theSize)]
    ELSE R

\* _setTextSize with a number; NaN differs from every number, itself included
_setTextSize(R, theSize) ==
    IF theSize = NaN \/ R.states.textSize # theSize
    THEN [R EXCEPT !.states.textSize = theSize,
                   !.states.textLeading =
                       IF ~R.states.leadingSet
                       THEN TimesLeadingScale(theSize)
                       ELSE R.states.textLeading]
    ELSE R

\* The sizes _fontSizePx can return for a string.  A numeric string is parsed;
\* any other is given to a hidden element and the computed font size is
\* parsed: the resolved length, or for a size the element does not take the
\* size it inherits, or NaN when no style is computed.  parseFloat returns a
\* number in every case, so the throw that follows it is never reached.
_fontSizePx(theSize) ==
    CASE theSize = "20" -> {20 * Milli}
      [] theSize = "2em" -> {2 * InheritedSize, NaN}
      [] OTHER -> {InheritedSize, NaN}

\* The strings no length resolves
Unresolvable(theSize) == theSize \notin {"20", "2em"}

\* _setTextSize with a string, for one outcome px of _fontSizePx
_setTextSizeString(R, theSize, px) ==
    _setTextSize([R EXCEPT !.unresolved = Unresolvable(theSize)], px)

\* canvas.style names one property by its camel-case and its dashed name
StyleKey(opt) ==
    IF opt = "font-variation-settings" THEN "fontVariationSettings" ELSE opt

\* The axes VariableAxesRe knows
VariableAxes == {"wght", "wdth", "ital", "slnt", "opsz"}

\* A settings string is held as the sequence of the tokens CommaDelimRe
\* separates, a token as the pair of its tag, without the quotes, and the
\* text of its number.
\* parseFloat(parseFloat(text).toFixed(3)): the number to three decimals
Fixed3(text) == IF text = "700.0004" THEN "700" ELSE text

\* The [axis, value] pairs of the tokens VariableAxesRe matches, in order
RECURSIVE VariationAxes(_)
VariationAxes(value) ==
    IF Len(value) = 0 THEN <<>>
    ELSE (IF Head(value)[1] \in VariableAxes
          THEN << <<Head(value)[1], Fixed3(Head(value)[2])>> >> ELSE <<>>)
         \o VariationAxes(Tail(value))

\* this.canvas.style[opt] = value, after the handling of variable-font settings
StyleWrite(R, opt, value) == [R EXCEPT !.style[StyleKey(opt)] = value]

RECURSIVE textWeightSet(_, _)
RECURSIVE HandleAxes_MapsWidth(_, _)
RECURSIVE HandleAxes(_, _)
RECURSIVE _handleFontVariationSettings(_, _)
RECURSIVE _setCanvasStyleProperty(_, _, _)

\* textWeight(weight) with a number
textWeightSet(R, weight) ==
    _setCanvasStyleProperty(
        _applyTextProperties([R EXCEPT !.states.fontWeight = weight]),
        "font-variation-settings", << <<"wght", weight>> >>)

\* A handling whose wdth case sets the stretch of the state
HandleAxes_MapsWidth(R, axes) ==
    IF Len(axes) = 0 THEN R
    ELSE LET axis == Head(axes)[1]
             val == Head(axes)[2]
         IN  HandleAxes_MapsWidth(
                 IF axis = "wght" /\ R.states.fontWeight # val
                 THEN textWeightSet(R, val)
                 ELSE IF axis = "wdth"
                 THEN [R EXCEPT !.states.fontStretch = "expanded"]
                 ELSE R,
                 Tail(axes))

\* The switch on the axis of each matched token
HandleAxes(R, axes) ==
    IF Len(axes) = 0 THEN R
    ELSE LET axis == Head(axes)[1]
             val == Head(axes)[2]
         IN  HandleAxes(IF axis = "wght" /\ R.states.fontWeight # val
                        THEN textWeightSet(R, val) ELSE R,
                        Tail(axes))

_handleFontVariationSettings(R, value) == HandleAxes(R, VariationAxes(value))

_setCanvasStyleProperty(R, opt, value) ==
    StyleWrite(IF opt = "fontVariationSettings"
               THEN _handleFontVariationSettings(R, value) ELSE R,
               opt, value)

\* The warning for a property no surface knows
UnknownOption(prop) == "Ignoring unknown text option: " \o prop

\* A setter that queues a write to the context and leaves it for a later cycle
textPropertySet_QueuesOnly(R, prop, value) ==
    IF prop \in DOMAIN R.states /\ R.states[prop] # value
    THEN _applyTextProperties([R EXCEPT !.states[prop] = value])
    ELSE IF prop \in DOMAIN R.ctx
    THEN _setContextProperty(R, prop, value)
    ELSE IF prop \in DOMAIN R.style
    THEN _applyTextProperties(_setCanvasStyleProperty(R, prop, value))
    ELSE [R EXCEPT !.warnings = Append(@, UnknownOption(prop))]

\* textProperty(prop, value) with a defined value: the setter
textPropertySet(R, prop, value) ==
    IF prop \in DOMAIN R.states /\ R.states[prop] # value
    THEN _applyTextProperties([R EXCEPT !.states[prop] = value])
    ELSE IF prop \in DOMAIN R.ctx
    THEN _applyTextProperties(_setContextProperty(R, prop, value))
    ELSE IF prop \in DOMAIN R.style
    THEN _applyTextProperties(_setCanvasStyleProperty(R, prop, value))
    ELSE [R EXCEPT !.warnings = Append(@, UnknownOption(prop))]

-----------------------------------------------------------------------------
(* The public calls *)

Renderer ==
    [states |-> states, ctx |-> ctx, queue |-> contextQueue,
     style |-> canvasStyle, warnings |-> <<>>,
     applied |-> FALSE, unresolved |-> FALSE, writes |-> <<>>]

\* The state a public call leaves when it returns R
Returns(R, name) ==
    /\ states' = R.states
    /\ ctx' = R.ctx
    /\ contextQueue' = R.queue
    /\ canvasStyle' = R.style
    /\ warnings' = R.warnings
    /\ op' = name
    /\ resized' = (R.states.textSize # states.textSize)
    /\ applied' = R.applied
    /\ unresolved' = R.unresolved
    /\ writes' = R.writes
    /\ other' = other
    /\ UNCHANGED layoutVars

\* The second renderer, which shares the queue of the module
OtherRenderer ==
    [states |-> other.states, ctx |-> other.ctx, queue |-> contextQueue,
     style |-> other.style, warnings |-> <<>>,
     applied |-> FALSE, unresolved |-> FALSE, writes |-> <<>>]

\* The state a public call on the second renderer leaves when it returns R
ReturnsOther(R, name) ==
    /\ other' = [states |-> R.states, ctx |-> R.ctx, style |-> R.style]
    /\ contextQueue' = R.queue
    /\ warnings' = R.warnings
    /\ op' = "other." \o name
    /\ resized' = (R.states.textSize # other.states.textSize)
    /\ applied' = R.applied
    /\ unresolved' = R.unresolved
    /\ writes' = R.writes
    /\ UNCHANGED <<states, ctx, canvasStyle>>
    /\ UNCHANGED layoutVars

TextAlign(h, v) ==
    Returns(_applyTextProperties(
                [Renderer EXCEPT
                    !.states.textAlign = h,
                    !.states.textBaseline =
                        IF v = UndefinedStr THEN @
                        ELSE IF v = CENTER THEN _CTX_MIDDLE ELSE v]),
            "textAlign")

\* textFont(font, size) with the name of a font; size may be omitted
TextFont(font, size) ==
    LET R1 == [Renderer EXCEPT !.states.textFont = font]
        R2 == IF size # Undefined THEN _setTextSize(R1, size) ELSE R1
    IN  Returns(_applyTextProperties(R2), "textFont")

TextLeading(leading) ==
    Returns(_applyTextProperties(
                [Renderer EXCEPT !.states.leadingSet = TRUE,
                                 !.states.textLeading = leading]),
            "textLeading")

TextWeight(weight) == Returns(textWeightSet(Renderer, weight), "textWeight")

TextSize(size) ==
    Returns(_applyTextProperties(_setTextSize(Renderer, size)), "textSize")

TextStyle(style) ==
    Returns(_applyTextProperties([Renderer EXCEPT !.states.fontStyle = style]),
            "textStyle")

\* textSize(size) with a string
TextSizeString(size) ==
    \E px \in _fontSizePx(size) :
        Returns(_applyTextProperties(_setTextSizeString(Renderer, size, px)),
                "textSize")

\* A textWrap that ends with the apply cycle, as the other setters do
TextWrap_Applies(wrapStyle) ==
    Returns(_applyTextProperties(
                IF wrapStyle \in {WORD, CHAR}
                THEN [Renderer EXCEPT !.states.textWrap = wrapStyle]
                ELSE Renderer),
            "textWrap")

\* textWrap(wrapStyle): any value but WORD and CHAR is taken for the getter
TextWrap(wrapStyle) ==
    Returns(IF wrapStyle \in {WORD, CHAR}
            THEN [Renderer EXCEPT !.states.textWrap = wrapStyle]
            ELSE Renderer,
            "textWrap")

TextDirection(direction) ==
    Returns(_applyTextProperties(
                [Renderer EXCEPT !.states.direction = direction]),
            "textDirection")

TextProperty(prop, value) ==
    Returns(textPropertySet(Renderer, prop, value), "textProperty")

OtherTextProperty(prop, value) ==
    ReturnsOther(textPropertySet(OtherRenderer, prop, value), "textProperty")

OtherTextStyle(style) ==
    ReturnsOther(_applyTextProperties(
                     [OtherRenderer EXCEPT !.states.fontStyle = style]),
                 "textStyle")

\* The apply cycle run once more, with no call in between
Reapply == Returns(_applyTextProperties(Renderer), "_applyTextProperties")

\* _processLines(str, width, height), as the layout calls run it
ProcessLines ==
    /\ pc = "idle"
    /\ LET r == _processLines(str, width, height)
       IN  /\ lines' = r.lines
           /\ err' = r.err
           /\ commits' = r.commits
           /\ ctx' = [ctx EXCEPT !.textBaseline = r.textBaseline]
    /\ pc' = "done"
    /\ op' = "_processLines"
    /\ resized' = FALSE
    /\ warnings' = <<>>
    /\ applied' = FALSE
    /\ unresolved' = FALSE
    /\ writes' = <<>>
    /\ other' = other
    /\ UNCHANGED <<states, contextQueue, canvasStyle, str, width, height,
                   rectMode, layout>>

-----------------------------------------------------------------------------
(* Positions and bounds.  Positions are in thousandths: of a pixel          *)
(* vertically, of the unit of the advances horizontally.                    *)

LetterAscent == 2
LetterDescent == 1

\* fontBoundingBoxAscent and fontBoundingBoxDescent of the current font
FontAscent == (LetterAscent + LetterDescent) * Milli
FontDescent == LetterDescent * Milli

\* How far the alphabetic baseline lies below the line of context.textBaseline
BaselineDrop(textBaseline) ==
    CASE textBaseline \in {TOP, HANGING} -> FontAscent
      [] textBaseline = _CTX_MIDDLE -> (FontAscent - FontDescent) \div 2
      [] textBaseline \in {BOTTOM, IDEOGRAPHIC} -> 0 - FontDescent
      [] OTHER -> 0

\* How far the start of the advance lies left of the point of
\* context.textAlign, in a left-to-right context
AnchorShift(s, textAlign) ==
    CASE textAlign = CENTER -> (AdvanceWidth(s) * Milli) \div 2
      [] textAlign \in {RIGHT, END} -> AdvanceWidth(s) * Milli
      [] OTHER -> 0

\* TextMetrics of measureText(s) under a context c
Metrics(s, c) ==
    LET ink == InkWidth(s) * Milli
        lead == (AdvanceWidth(s) - AdvanceWidth(TrimStart(s))) * Milli
        shift == AnchorShift(s, c.textAlign)
        drop == BaselineDrop(c.textBaseline)
        inked == InkWidth(s) > 0
    IN  [width |-> AdvanceWidth(s) * Milli,
         actualBoundingBoxLeft    |-> IF inked THEN shift - lead ELSE 0,
         actualBoundingBoxRight   |-> IF inked THEN lead + ink - shift ELSE 0,
         actualBoundingBoxAscent  |->
             IF inked THEN LetterAscent * Milli - drop ELSE 0,
         actualBoundingBoxDescent |->
             IF inked THEN LetterDescent * Milli + drop ELSE 0,
         fontBoundingBoxAscent    |-> FontAscent - drop,
         fontBoundingBoxDescent   |-> FontDescent + drop]

\* _handleRectMode: x, y, width and height of the text call by the rect mode
_handleRectMode(x, y, w, h) ==
    IF w = Undefined THEN [x |-> x, y |-> y, width |-> w, height |-> h]
    ELSE CASE rectMode = RADIUS ->
                [x |-> x - w * Milli,
                 y |-> IF h # Undefined THEN y - h ELSE y,
                 width |-> 2 * w,
                 height |-> IF h # Undefined THEN 2 * h ELSE h]
           [] rectMode = CENTER ->
                [x |-> x - (w * Milli) \div 2,
                 y |-> IF h # Undefined THEN y - h \div 2 ELSE y,
                 width |-> w, height |-> h]
           [] rectMode = CORNERS ->
                [x |-> x, y |-> y,
                 width |-> w - x \div Milli,
                 height |-> IF h # Undefined THEN h - y ELSE h]
           [] OTHER -> [x |-> x, y |-> y, width |-> w, height |-> h]

\* _rectModeAdjust: width and height of a bounds call by the rect mode
_rectModeAdjust(x, y, w, h) ==
    IF w = Undefined THEN [x |-> x, y |-> y, width |-> w, height |-> h]
    ELSE CASE rectMode = CORNERS ->
                [x |-> x, y |-> y,
                 width |-> w - x \div Milli, height |-> Minus(h, y)]
           [] rectMode = RADIUS ->
                [x |-> x, y |-> y, width |-> 2 * w, height |-> Times(h, 2)]
           [] OTHER -> [x |-> x, y |-> y, width |-> w, height |-> h]

\* The width of the box in thousandths
WidthMilli(w) == IF IsNum(w) THEN w * Milli ELSE w

EndNotSupported == "textBounds: END not yet supported for textAlign"
StartNotSupported == "textBounds: START not yet supported for textAlign"

\* _xAlignOffset, where it does not throw
_xAlignOffset(textAlign, w) ==
    CASE textAlign = CENTER -> Half(w)
      [] textAlign = RIGHT -> IF w = Undefined THEN NaN ELSE w
      [] OTHER -> 0

\* _xAlignOffset throws
XAlignThrows(textAlign) == textAlign = END

\* _yAlignOffset: the offset, the warning, and the lines or boxes moved
\* An offset that counts the leading of every line, the first included
YOffset_EveryLine(n, h) ==
    LET ydiff == Minus(h, Times(states.textLeading, n))
    IN  CASE states.textBaseline = _CTX_MIDDLE -> Half(ydiff)
          [] states.textBaseline = BOTTOM -> ydiff
          [] OTHER -> 0

YOffset(n, h) ==
    LET ydiff == Minus(h, Times(states.textLeading, n - 1))
    IN  CASE states.textBaseline = _CTX_MIDDLE -> Half(ydiff)
          [] states.textBaseline = BOTTOM -> ydiff
          [] OTHER -> 0

YWarnings ==
    CASE states.textBaseline = IDEOGRAPHIC ->
            <<"textBounds: IDEOGRAPHIC not yet supported for textBaseline">>
      [] states.textBaseline = HANGING ->
            <<"textBounds: HANGING not yet supported for textBaseline">>
      [] OTHER -> <<>>

_yAlignOffset(dataArr, h) ==
    [i \in 1..Len(dataArr) |->
        [dataArr[i] EXCEPT !.y = Plus(@, YOffset(Len(dataArr), h))]]

\* _positionLines, where it does not throw
_positionLines(x, y, w, h, ls) ==
    LET textAlign == states.textAlign
        adjustedW == IF w = Undefined THEN 0 ELSE w * Milli
        adjustedH == IF h = Undefined THEN 0 ELSE h
        adjustedX == CASE textAlign = LEFT -> x
                       [] textAlign = CENTER -> x + adjustedW \div 2
                       [] textAlign = RIGHT -> x + adjustedW
                       [] OTHER -> Undefined
        lineData == [i \in 1..Len(ls) |->
                        [text |-> ls[i], x |-> adjustedX,
                         y |-> Plus(y, Times(states.textLeading, i - 1))]]
    IN  _yAlignOffset(lineData, adjustedH)

\* The error _positionLines throws in its first iteration
PositionThrows(ls) ==
    IF Len(ls) = 0 THEN ""
    ELSE IF states.textAlign = START THEN StartNotSupported
    ELSE IF states.textAlign = END THEN EndNotSupported
    ELSE ""

\* The fillText calls of lines.forEach(line => this._renderText(...))
RenderLines(lineData) == lineData

\* A text call that draws each line as soon as the line processor returns it,
\* before the lines are positioned
TextDone_RendersFirst(x, y, box, pl, e) ==
    LET drawn == RenderLines([i \in 1..Len(pl.lines) |->
                                 [text |-> pl.lines[i], x |-> box.x,
                                  y |-> box.y]])
    IN  IF e # ""
        THEN [err |-> e, lines |-> <<>>, commits |-> pl.commits,
              warnings |-> <<>>, textBaseline |-> pl.textBaseline,
              layout |-> [path |-> "text", x |-> x, y |-> y, box |-> box,
                          lineData |-> <<>>, rendered |-> drawn]]
        ELSE [err |-> "", lines |-> pl.lines, commits |-> pl.commits,
              warnings |-> YWarnings, textBaseline |-> ctx.textBaseline,
              layout |-> [path |-> "text", x |-> x, y |-> y, box |-> box,
                          lineData |-> _positionLines(box.x, box.y, box.width,
                                                      box.height, pl.lines),
                          rendered |-> drawn]]

\* The text call throws with the error e before any line is drawn, or
\* positions the lines and then draws them
TextDone(x, y, box, pl, e) ==
    IF e # ""
    THEN [err |-> e, lines |-> <<>>, commits |-> pl.commits,
          warnings |-> <<>>, textBaseline |-> pl.textBaseline,
          layout |-> [path |-> "text", x |-> x, y |-> y, box |-> box,
                      lineData |-> <<>>, rendered |-> <<>>]]
    ELSE [err |-> "", lines |-> pl.lines, commits |-> pl.commits,
          warnings |-> YWarnings, textBaseline |-> ctx.textBaseline,
          layout |-> [path |-> "text", x |-> x, y |-> y, box |-> box,
                      lineData |-> _positionLines(box.x, box.y, box.width,
                                                  box.height, pl.lines),
                      rendered |->
                          RenderLines(_positionLines(box.x, box.y, box.width,
                                                     box.height, pl.lines))]]

TextOfLines(x, y, box, pl) ==
    TextDone(x, y, box, pl,
             IF pl.err # "" THEN pl.err ELSE PositionThrows(pl.lines))

TextInBox(x, y, box) ==
    TextOfLines(x, y, box, _processLines(str, box.width, box.height))

\* text(str, x, y, width, height)
TextCall(x, y) == TextInBox(x, y, _handleRectMode(x, y, width, height))

_textBoundsSingle(s, x, y, c) ==
    LET m == Metrics(s, c)
    IN  [x |-> Minus(x, m.actualBoundingBoxLeft),
         y |-> Minus(y, m.actualBoundingBoxAscent),
         w |-> m.actualBoundingBoxRight + m.actualBoundingBoxLeft,
         h |-> m.actualBoundingBoxAscent + m.actualBoundingBoxDescent]

\* _fontBoundsSingle, where its call of _xAlignOffset does not throw
_fontBoundsSingle(s, x, y, c) ==
    LET m == Metrics(s, c)
    IN  [x |-> Minus(x, _xAlignOffset(states.textAlign, m.width)),
         y |-> Minus(y, m.fontBoundingBoxAscent),
         w |-> m.width,
         h |-> m.fontBoundingBoxAscent + m.fontBoundingBoxDescent]

TextBoundsType == "_textBoundsSingle"
FontBoundsType == "_fontBoundsSingle"

SingleBounds(type, s, x, y, c) ==
    IF type = FontBoundsType THEN _fontBoundsSingle(s, x, y, c)
    ELSE _textBoundsSingle(s, x, y, c)

\* Math.min and Math.max of a non-empty set of numbers
MathMin(S) == IF NaN \in S THEN NaN ELSE CHOOSE a \in S : \A b \in S : a <= b
MathMax(S) == IF NaN \in S THEN NaN ELSE CHOOSE a \in S : \A b \in S : a >= b

\* An aggregation that takes the left and top edges of the first box
_aggregateBounds_FirstBox(bboxes) ==
    LET I == 1..Len(bboxes)
        maxY == MathMax({Plus(bboxes[i].y, bboxes[i].h) : i \in I})
        maxX == MathMax({Plus(bboxes[i].x, bboxes[i].w) : i \in I})
    IN  [x |-> bboxes[1].x, y |-> bboxes[1].y,
         w |-> Minus(maxX, bboxes[1].x), h |-> Minus(maxY, bboxes[1].y)]

_aggregateBounds(bboxes) ==
    LET I == 1..Len(bboxes)
        minX == MathMin({bboxes[i].x : i \in I})
        minY == MathMin({bboxes[i].y : i \in I})
        maxY == MathMax({Plus(bboxes[i].y, bboxes[i].h) : i \in I})
        maxX == MathMax({Plus(bboxes[i].x, bboxes[i].w) : i \in I})
    IN  [x |-> minX, y |-> minY, w |-> Minus(maxX, minX), h |-> Minus(maxY, minY)]

\* width || 0
OrZero(a) == IF IsNum(a) THEN a ELSE 0

\* A re-anchoring whose RADIUS case halves the size before it centres
_rectModeAlign_HalvesFirst(bb, w, h) ==
    LET hw == Half(bb.w)
        hh == Half(bb.h)
    IN  CASE rectMode = CENTER ->
                [bb EXCEPT !.x = Minus(bb.x, Half(Minus(w, bb.w))),
                           !.y = Minus(bb.y, Half(Minus(h, bb.h)))]
          [] rectMode = CORNERS ->
                [bb EXCEPT !.w = Plus(bb.w, bb.x), !.h = Plus(bb.h, bb.y)]
          [] rectMode = RADIUS ->
                [x |-> Minus(bb.x, Half(Minus(w, hw))),
                 y |-> Minus(bb.y, Half(Minus(h, hh))),
                 w |-> hw, h |-> hh]
          [] OTHER -> bb

\* _rectModeAlign(bb, width, height), called with numbers
_rectModeAlign(bb, w, h) ==
    LET cx == Minus(bb.x, Half(Minus(w, bb.w)))
        cy == Minus(bb.y, Half(Minus(h, bb.h)))
    IN  CASE rectMode = CENTER -> [bb EXCEPT !.x = cx, !.y = cy]
          [] rectMode = CORNERS ->
                [bb EXCEPT !.w = Plus(bb.w, bb.x), !.h = Plus(bb.h, bb.y)]
          [] rectMode = RADIUS ->
                [x |-> cx, y |-> cy, w |-> Half(bb.w), h |-> Half(bb.h)]
          [] OTHER -> bb

\* boxes[0] of an empty list
NoBox == [x |-> Undefined, y |-> Undefined, w |-> Undefined, h |-> Undefined]

\* The bounds call throws with the error e
BoundsThrown(type, x, y, adj, pl, e) ==
    [err |-> e, lines |-> <<>>, commits |-> pl.commits,
     warnings |-> <<>>, textBaseline |-> pl.textBaseline,
     layout |-> [path |-> type, x |-> x, y |-> y, box |-> adj,
                 raw |-> <<>>, boxes |-> <<>>, union |-> NoBox,
                 bounds |-> NoBox]]

\* The bounds call returns: the union of the boxes of two lines or more, put
\* back in the rect mode, or the box of the only line
BoundsReturned(type, x, y, adj, pl, raw, boxes) ==
    LET union == _aggregateBounds(boxes)
    IN  [err |-> "", lines |-> pl.lines, commits |-> pl.commits,
         warnings |-> IF adj.height # Undefined THEN YWarnings ELSE <<>>,
         textBaseline |-> ctx.textBaseline,
         layout |-> [path |-> type, x |-> x, y |-> y, box |-> adj,
                     raw |-> raw, boxes |-> boxes,
                     union |-> IF Len(boxes) > 1 THEN union ELSE NoBox,
                     bounds |->
                         IF Len(boxes) > 1
                         THEN _rectModeAlign(union,
                                             OrZero(WidthMilli(adj.width)),
                                             OrZero(adj.height))
                         ELSE IF Len(boxes) = 1 THEN boxes[1] ELSE NoBox]]

\* The boxes of the lines, moved by the horizontal offset when there are two
\* lines or more and by the vertical offset when a height is given
BoundsAligned(type, x, y, adj, pl, raw) ==
    LET xOff == _xAlignOffset(states.textAlign, WidthMilli(adj.width))
        moved == IF Len(raw) > 1
                 THEN [i \in 1..Len(raw) |-> [raw[i] EXCEPT !.x = Plus(@, xOff)]]
                 ELSE raw
    IN  BoundsReturned(type, x, y, adj, pl, raw,
                       IF adj.height # Undefined
                       THEN _yAlignOffset(moved, adj.height) ELSE moved)

\* The lines of the bounds call, measured one by one
BoundsOfLines(type, x, y, adj, pl) ==
    IF pl.err # "" THEN BoundsThrown(type, x, y, adj, pl, pl.err)
    ELSE IF /\ XAlignThrows(states.textAlign)
            /\ \/ type = FontBoundsType /\ Len(pl.lines) > 0
               \/ Len(pl.lines) > 1
         THEN BoundsThrown(type, x, y, adj, pl, EndNotSupported)
    ELSE BoundsAligned(type, x, y, adj, pl,
            [i \in 1..Len(pl.lines) |->
                SingleBounds(type, pl.lines[i], x,
                             Plus(y, Times(states.textLeading, i - 1)),
                             [ctx EXCEPT !.textBaseline = pl.textBaseline])])

BoundsInBox(type, x, y, adj) ==
    BoundsOfLines(type, x, y, adj, _processLines(str, adj.width, adj.height))

\* _computeBounds(type, str, x, y, width, height)
ComputeBounds(type, x, y) ==
    BoundsInBox(type, x, y, _rectModeAdjust(x, y, width, height))

\* A layout call returns or throws with the result r
Lays(r, name) ==
    /\ pc = "idle"
    /\ pc' = "done"
    /\ lines' = r.lines
    /\ err' = r.err
    /\ commits' = r.commits
    /\ warnings' = r.warnings
    /\ ctx' = [ctx EXCEPT !.textBaseline = r.textBaseline]
    /\ layout' = r.layout
    /\ op' = name
    /\ resized' = FALSE
    /\ applied' = FALSE
    /\ unresolved' = FALSE
    /\ writes' = <<>>
    /\ other' = other
    /\ UNCHANGED <<states, contextQueue, canvasStyle, str, width, height,
                   rectMode>>

Text == Lays(TextCall(layout.x, layout.y), "text")

TextBounds ==
    Lays(ComputeBounds(TextBoundsType, layout.x, layout.y), "textBounds")

FontBounds ==
    Lays(ComputeBounds(FontBoundsType, layout.x, layout.y), "fontBounds")

\* The ReferenceError of reading a name no scope declares
PropNotDefined == "ReferenceError: prop is not defined"

\* A measuring call returns the value v or throws the error e
Measures(v, e, name) ==
    Lays([err |-> e, lines |-> <<>>, commits |-> <<>>, warnings |-> <<>>,
          textBaseline |-> ctx.textBaseline,
          layout |-> [path |-> name, value |-> v]],
         name)

\* fontAscent() and fontDescent(): the font box of measureText('_')
fontAscent == Metrics(<<"_">>, ctx).fontBoundingBoxAscent
fontDescent == Metrics(<<"_">>, ctx).fontBoundingBoxDescent

\* textAscent(txt): without text the ascent of the font; with text the
\* property of the metrics that the name prop selects, a name that the
\* function and the module around it do not declare
TextAscent ==
    IF Len(str) = 0 THEN Measures(fontAscent, "", "textAscent")
    ELSE Measures(Undefined, PropNotDefined, "textAscent")

\* textDescent(txt), likewise
TextDescent ==
    IF Len(str) = 0 THEN Measures(fontDescent, "", "textDescent")
    ELSE Measures(Undefined, PropNotDefined, "textDescent")

-----------------------------------------------------------------------------
(* Specifications *)

\* textProperty calls on fields of the typography state, and on no field
StatePropArgs ==
    { <<"textSize", 12 * Milli>>,
      <<"textSize", 20 * Milli>>,
      <<"textLeading", 30 * Milli>>,
      <<"textKerning", "none">> }

\* textProperty calls on properties of the context and of the canvas style
ContextPropArgs ==
    { <<"fontStretch", "condensed">>,
      <<"fontStretch", "wide">>,
      <<"letterSpacing", "2px">>,
      <<"font", <<"20px", "serif">>>>,
      <<"fontVariationSettings", << <<"wght", "700">> >> >> }

\* No text or bounds call was made
NoLayout == [path |-> "none"]

\* The context after the apply cycle of a new renderer
AppliedContext ==
    _applyTextProperties(
        [states |-> RendererTextProps, ctx |-> CanvasDefaults,
         queue |-> <<>>, style |-> StyleDefaults,
         warnings |-> <<>>, applied |-> FALSE,
         unresolved |-> FALSE, writes |-> <<>>]).ctx

\* A second renderer, after construction and its apply cycle
SecondRenderer ==
    [states |-> RendererTextProps, ctx |-> AppliedContext,
     style |-> StyleDefaults]

\* The renderer after construction; the constructor may or may not have run
\* the apply cycle
InitRenderer ==
    /\ states = RendererTextProps
    /\ ctx \in {CanvasDefaults, AppliedContext}
    /\ contextQueue = <<>>
    /\ canvasStyle = StyleDefaults
    /\ warnings = <<>>
    /\ op = "init"
    /\ resized = FALSE
    /\ applied = FALSE
    /\ unresolved = FALSE
    /\ writes = <<>>
    /\ other = SecondRenderer
    /\ rectMode = CORNER
    /\ layout = NoLayout

Init ==
    /\ InitRenderer
    /\ pc = "idle"
    /\ str = <<>>
    /\ width = Undefined
    /\ height = Undefined
    /\ lines = <<>>
    /\ err = ""
    /\ commits = <<>>

\* The calls that set the size, the leading, the font and the wrap mode
Next ==
    \/ \E s \in SizeArgs : TextSize(s)
    \/ \E f \in FamilyArgs, s \in SizeArgs \cup {Undefined} : TextFont(f, s)
    \/ \E l \in LeadingArgs : TextLeading(l)
    \/ \E w \in WrapArgs \cup InvalidArgs : TextWrap(w)
    \/ \E pv \in StatePropArgs : TextProperty(pv[1], pv[2])
    \/ \E s \in SizeStringArgs : TextSizeString(s)

Spec == Init /\ [][Next]_vars

\* The calls that write to the context, and the apply cycle run again
ApplyNext ==
    \/ \E h \in AlignArgs, v \in VAlignArgs : TextAlign(h, v)
    \/ \E f \in FamilyArgs : TextFont(f, Undefined)
    \/ \E w \in WeightArgs : TextWeight(w)
    \/ \E s \in SizeArgs : TextSize(s)
    \/ \E s \in StyleArgs : TextStyle(s)
    \/ \E d \in DirectionArgs : TextDirection(d)
    \/ \E pv \in ContextPropArgs : TextProperty(pv[1], pv[2])
    \/ \E w \in WrapArgs \cup InvalidArgs : TextWrap(w)
    \/ Reapply

ApplySpec == Init /\ [][ApplyNext]_vars

\* The line processor on every input of the bounded sets, in the states the
\* wrap-mode and leading setters lead to
LineInit ==
    /\ \E w \in WrapArgs, l \in {RendererTextProps.textLeading, HeightUnit} :
          states = [RendererTextProps EXCEPT
                       !.textWrap = w,
                       !.textLeading = l,
                       !.leadingSet = (l # RendererTextProps.textLeading)]
    /\ ctx = CanvasDefaults
    /\ contextQueue = <<>>
    /\ canvasStyle = StyleDefaults
    /\ warnings = <<>>
    /\ op = "init"
    /\ resized = FALSE
    /\ applied = FALSE
    /\ unresolved = FALSE
    /\ writes = <<>>
    /\ other = SecondRenderer
    /\ rectMode = CORNER
    /\ layout = NoLayout
    /\ pc = "idle"
    /\ str \in Strs
    /\ width \in WidthArgs
    /\ height \in HeightArgs
    /\ lines = <<>>
    /\ err = ""
    /\ commits = <<>>

LineNext == ProcessLines

LineSpec == LineInit /\ [][LineNext]_vars

\* The inputs of the text and bounds calls
LayoutStrs ==
    { <<>>,
      <<"a">>,
      <<"a", "b", " ", "c", "d", " ", "e", "f">>,
      <<" ", "a", "\n", "b", "c">> }
LayoutWidths == {Undefined, MaxWidth - 3, MaxWidth}
LayoutHeights == {Undefined, HeightUnit, 2 * HeightUnit, 4 * HeightUnit}
LayoutPositions == {<<0, 0>>, <<Milli, HeightUnit>>}
RectModes == {CORNER, CORNERS, CENTER, RADIUS}
LayoutAligns == {LEFT, CENTER, RIGHT, START, END}
LayoutBaselines == {TOP, BASELINE, _CTX_MIDDLE, BOTTOM, HANGING, IDEOGRAPHIC}

\* The text and bounds calls in the states textAlign(h, v) and rectMode lead
\* to, with the context as the apply cycle of textAlign left it
LayoutInit ==
    /\ \E h \in LayoutAligns, v \in LayoutBaselines :
          /\ states = [RendererTextProps EXCEPT !.textAlign = h,
                                                !.textBaseline = v]
          /\ ctx = [AppliedContext EXCEPT !.textAlign = h,
                                           !.textBaseline = v]
    /\ contextQueue = <<>>
    /\ canvasStyle = StyleDefaults
    /\ warnings = <<>>
    /\ op = "textAlign"
    /\ resized = FALSE
    /\ applied = TRUE
    /\ unresolved = FALSE
    /\ writes = <<>>
    /\ other = SecondRenderer
    /\ rectMode \in RectModes
    /\ \E p \in LayoutPositions :
          layout = [path |-> "none", x |-> p[1], y |-> p[2]]
    /\ pc = "idle"
    /\ str \in LayoutStrs
    /\ width \in LayoutWidths
    /\ height \in LayoutHeights
    /\ lines = <<>>
    /\ err = ""
    /\ commits = <<>>

LayoutNext == Text \/ TextBounds \/ FontBounds

LayoutSpec == LayoutInit /\ [][LayoutNext]_vars

\* The apply cycle on every queue of the bounded set.  The queue is a variable
\* of the module, which the cycle drains whatever its length; the calls of
\* this file run the cycle right after they add an entry.
MaxQueue == 2
QueueEntries ==
    { <<"fontStretch", "wide">>,
      <<"letterSpacing", "2px">>,
      <<"direction", "rtl">> }
Queues == UNION {[1..n -> QueueEntries] : n \in 0..MaxQueue}

\* textProperty calls on properties of the context, with the value the
\* context holds and with another
QueuePropArgs ==
    { <<"letterSpacing", "0px">>,
      <<"letterSpacing", "2px">>,
      <<"fontStretch", "condensed">>,
      <<"fontStretch", "wide">> }

QueueInit ==
    /\ states = RendererTextProps
    /\ ctx = AppliedContext
    /\ contextQueue \in Queues
    /\ canvasStyle = StyleDefaults
    /\ warnings = <<>>
    /\ op = "init"
    /\ resized = FALSE
    /\ applied = FALSE
    /\ unresolved = FALSE
    /\ writes = <<>>
    /\ other = SecondRenderer
    /\ rectMode = CORNER
    /\ layout = NoLayout
    /\ pc = "idle"
    /\ str = <<>>
    /\ width = Undefined
    /\ height = Undefined
    /\ lines = <<>>
    /\ err = ""
    /\ commits = <<>>

QueueNext ==
    \/ Reapply
    \/ \E pv \in QueuePropArgs : TextProperty(pv[1], pv[2])
    \/ \E s \in StyleArgs : TextStyle(s)

QueueSpec == QueueInit /\ [][QueueNext]_vars

\* Two renderers of one sketch, whose calls interleave in any order: the
\* calls are synchronous, so each runs to its end before the next starts
SharedNext ==
    \/ \E pv \in QueuePropArgs : TextProperty(pv[1], pv[2])
    \/ \E s \in StyleArgs : TextStyle(s)
    \/ \E pv \in QueuePropArgs : OtherTextProperty(pv[1], pv[2])
    \/ \E s \in StyleArgs : OtherTextStyle(s)

SharedSpec == Init /\ [][SharedNext]_vars

\* textProperty calls on the fields of the state that the font string holds
FontPropArgs ==
    { <<"fontStyle", "italic">>,   <<"fontStyle", NORMAL>>,
      <<"fontVariant", "small-caps">>, <<"fontVariant", NORMAL>>,
      <<"fontWeight", "700">>,     <<"fontWeight", NORMAL>>,
      <<"lineHeight", "1.5">>,     <<"lineHeight", NORMAL>> }

\* The calls that change a field of the font string
FontNext ==
    \/ \E pv \in FontPropArgs : TextProperty(pv[1], pv[2])
    \/ \E f \in FamilyArgs, sz \in SizeArgs \cup {Undefined} : TextFont(f, sz)
    \/ \E sz \in SizeArgs : TextSize(sz)

FontSpec == Init /\ [][FontNext]_vars

\* textProperty calls with settings of variable fonts: the weight axis, the
\* other axes, a tag no axis matches, several tokens, and no token
VariationWeights == {"400", "700"}
VariationArgs ==
    { << <<"wght", "700">> >>,
      << <<"wght", "700.0004">> >>,
      << <<"wdth", "120">> >>,
      << <<"ital", "1">> >>,
      << <<"slnt", "10">> >>,
      << <<"opsz", "14">> >>,
      << <<"XTRA", "5">> >>,
      << <<"wght", "400">>, <<"wdth", "120">> >>,
      << <<"wght", "400">>, <<"wght", "700">> >>,
      <<>> }

VariationNext ==
    \/ \E v \in VariationArgs : TextProperty("fontVariationSettings", v)
    \/ \E w \in VariationWeights : TextWeight(w)
    \/ \E s \in StyleArgs : TextStyle(s)

VariationSpec == Init /\ [][VariationNext]_vars

\* The measuring calls, on any text and under any baseline
MeasureInit ==
    /\ \E v \in LayoutBaselines :
          /\ states = [RendererTextProps EXCEPT !.textBaseline = v]
          /\ ctx = [AppliedContext EXCEPT !.textBaseline = v]
    /\ contextQueue = <<>>
    /\ canvasStyle = StyleDefaults
    /\ warnings = <<>>
    /\ op = "textAlign"
    /\ resized = FALSE
    /\ applied = TRUE
    /\ unresolved = FALSE
    /\ writes = <<>>
    /\ other = SecondRenderer
    /\ rectMode = CORNER
    /\ layout = NoLayout
    /\ pc = "idle"
    /\ str \in Strs
    /\ width = Undefined
    /\ height = Undefined
    /\ lines = <<>>
    /\ err = ""
    /\ commits = <<>>

MeasureNext == TextAscent \/ TextDescent

MeasureSpec == MeasureInit /\ [][MeasureNext]_vars

\* The typography states of the leading guard.  The leading is an input of
\* the line processor: a field of the state object that it reads whether a
\* number or undefined, and that a new renderer holds as a number.
GuardLeadings == {Undefined, HeightUnit, RendererTextProps.textLeading}
GuardBaselines == {BASELINE, BOTTOM}
GuardAligns == {LEFT, END}

GuardInit ==
    /\ \E l \in GuardLeadings, v \in GuardBaselines, h \in GuardAligns :
          /\ states = [RendererTextProps EXCEPT !.textLeading = l,
                                                !.textBaseline = v,
                                                !.textAlign = h,
                                                !.leadingSet =
                                                    (l # RendererTextProps.textLeading)]
          /\ ctx = [AppliedContext EXCEPT !.textBaseline = v,
                                           !.textAlign = h]
    /\ contextQueue = <<>>
    /\ canvasStyle = StyleDefaults
    /\ warnings = <<>>
    /\ op = "init"
    /\ resized = FALSE
    /\ applied = FALSE
    /\ unresolved = FALSE
    /\ writes = <<>>
    /\ other = SecondRenderer
    /\ rectMode \in {CORNER, RADIUS}
    /\ layout = [path |-> "none", x |-> 0, y |-> 0]
    /\ pc = "idle"
    /\ str \in LayoutStrs
    /\ width \in LayoutWidths
    /\ height \in LayoutHeights
    /\ lines = <<>>
    /\ err = ""
    /\ commits = <<>>

GuardSpec == GuardInit /\ [][LayoutNext]_vars

-----------------------------------------------------------------------------
(* The leading latch *)

\* leading = size * 1.275
ScaledLeading(size) == (size * LeadingScale) \div Milli

\* C1: once textLeading(v) has set the latch, a call of textSize or textFont,
\* and any call that changes the size, leaves the leading and the latch as
\* they were.
C1_LeadingLatch ==
    [][(states.leadingSet /\ (op' \in {"textSize", "textFont"} \/ resized'))
       => (states'.textLeading = states.textLeading /\ states'.leadingSet)]_vars

\* A size change made by textSize or textFont after the latch was set
C1_Witness ==
    /\ op \in {"textSize", "textFont"}
    /\ resized
    /\ states.leadingSet
    /\ states.textLeading # ScaledLeading(states.textSize)

\* C2: in every state in which the leading was never set explicitly, the
\* leading is size * 1.275.
C2_LeadingFollowsSize ==
    ~states.leadingSet => states.textLeading = ScaledLeading(states.textSize)

-----------------------------------------------------------------------------
(* The apply cycle *)

\* The warnings textProperty reports for the names it does not know
UnknownOptions ==
    {UnknownOption(pv[1]) : pv \in StatePropArgs \cup ContextPropArgs}

\* The last public call ended with _applyTextProperties
CycleRan ==
    /\ op \notin {"init", "textWrap", "_processLines"}
    /\ warnings = <<>> \/ warnings[Len(warnings)] \notin UnknownOptions

\* C3: a second run of the apply cycle, with no call since the first, leaves
\* every property of the context as the first run left it.
C3_ApplyIdempotent ==
    [][(CycleRan /\ op' = "_applyTextProperties") => ctx' = ctx]_vars

-----------------------------------------------------------------------------
(* The line processor *)

Processed == pc = "done" /\ err = ""

HasWidth == width # Undefined

HasHeight == height # Undefined

HasBreak(s) == \E i \in 1..Len(s) : s[i] = "\n"

\* A line that is one unbreakable token of the wrap mode
IsSingleToken(line) ==
    IF states.textWrap = WORD
    THEN \A i \in 1..Len(line) : line[i] # " "
    ELSE Len(line) <= 1

IsPrefix(a, b) == Len(a) <= Len(b) /\ a = SubSeq(b, 1, Len(a))

\* The lines before truncation
Wrapped == _processLines(str, width, Undefined).lines

\* C4: with a width, every returned line is no wider than the width, unless
\* the line is a single token that alone is wider than the width.
C4_LinesFitWidth ==
    (Processed /\ HasWidth) =>
        \A i \in 1..Len(lines) :
            \/ InkWidth(lines[i]) <= width
            \/ IsSingleToken(lines[i])

\* A wrap that returns a line that fits and holds several tokens, and a token
\* wider than the width
C4_Witness ==
    /\ Processed /\ HasWidth
    /\ Len(lines) > 1
    /\ \E i \in 1..Len(lines) :
           InkWidth(lines[i]) <= width /\ ~IsSingleToken(lines[i])
    /\ \E i \in 1..Len(lines) :
           InkWidth(lines[i]) > width /\ IsSingleToken(lines[i])

\* The case of C5: no break in the string and a width larger than its tight
\* width
FitsOnOneLine == ~HasBreak(str) /\ HasWidth /\ width > InkWidth(str)

\* C5 (as stated): a string with no break and a width larger than its tight
\* width is returned as exactly one line, the trimmed string.
C5_OneTrimmedLine ==
    (Processed /\ FitsOnOneLine) => lines = <<Trim(str)>>

\* The case of the amended C5: the width is measured after the tabs are
\* expanded, and the height, if given, holds one line
FitsExpanded ==
    /\ ~HasBreak(str) /\ HasWidth /\ width > InkWidth(ExpandTabs(str))
    /\ HasHeight => states.textLeading <= height

\* C5 (amended): a string with no break, at a width larger than the tight
\* width of the string with each tab replaced by two spaces, and with no
\* height or a height that holds one line, is returned as exactly one line:
\* the string with its tabs replaced and its leading and trailing whitespace
\* kept. The wrapping step alone would return that line trimmed.
C5_OneUntrimmedLine ==
    (Processed /\ FitsExpanded)
        => /\ lines = <<ExpandTabs(str)>>
           /\ _lineate(states.textWrap, <<ExpandTabs(str)>>, width).newLines
                  = <<Trim(ExpandTabs(str))>>

\* A fitting string with leading or trailing whitespace, returned as one line
C5_Witness ==
    /\ Processed /\ FitsExpanded
    /\ Trim(str) # str
    /\ Len(lines) = 1

\* The first word of a line
RECURSIVE FirstWord(_)
FirstWord(line) ==
    IF line = <<>> \/ Head(line) = " " THEN <<>>
    ELSE <<Head(line)>> \o FirstWord(Tail(line))

\* A string of words separated by single spaces
IsPlainText(s) ==
    /\ s = Trim(s)
    /\ \A i \in 1..Len(s) : s[i] \notin {"\n", "\t", "\r"}
    /\ \A i \in 1..(Len(s) - 1) : ~(s[i] = " " /\ s[i + 1] = " ")

ScenarioText == <<"a", "b", " ", "c", "d", " ", "e", "f">>

ScenarioFirstLine == <<"a", "b", " ", "c", "d">>

ScenarioLastLine == <<"e", "f">>

\* C6: in WORD mode a line is committed only when it is not empty and the
\* candidate with the next token is wider than the width, so every line of a
\* plain text is filled as far as it goes: "ab cd ef", at a width that fits
\* "ab cd" and not "ab cd ef", wraps to "ab cd" and "ef".
C6_GreedyWrap ==
    (Processed /\ HasWidth /\ states.textWrap = WORD) =>
        /\ \A k \in 1..Len(commits) :
               /\ Len(commits[k].line) > 0
               /\ InkWidth(commits[k].testLine) > width
        /\ (IsPlainText(str) /\ ~HasHeight) =>
               \A i \in 1..(Len(lines) - 1) :
                   InkWidth(lines[i] \o <<" ">> \o FirstWord(lines[i + 1]))
                       > width
        /\ (/\ str = ScenarioText
            /\ ~HasHeight
            /\ InkWidth(ScenarioFirstLine) <= width
            /\ width < InkWidth(ScenarioText))
               => lines = <<ScenarioFirstLine, ScenarioLastLine>>

\* The scenario, wrapped
C6_Witness ==
    /\ Processed /\ HasWidth /\ states.textWrap = WORD
    /\ str = ScenarioText
    /\ Len(commits) = 1
    /\ lines = <<ScenarioFirstLine, ScenarioLastLine>>

\* The number of lines that fit in the height
FittingLines(n, leading, h) ==
    Cardinality({i \in 1..n : leading * i <= h})

\* C7: with a width and a height, the returned lines are exactly the wrapped
\* lines i (counted from 0) with leading * (i + 1) <= height; a line that
\* exactly fits is kept.
C7_TruncateToHeight ==
    (Processed /\ HasWidth /\ HasHeight) =>
        /\ lines = SubSeq(Wrapped, 1,
                          FittingLines(Len(Wrapped), states.textLeading, height))
        /\ (height = states.textLeading /\ Len(Wrapped) = 2)
               => lines = <<Wrapped[1]>>

\* Two wrapped lines and a height of exactly one leading
C7_Witness ==
    /\ Processed /\ HasWidth
    /\ height = states.textLeading
    /\ Len(Wrapped) = 2
    /\ Len(lines) = 1

\* C8: the lines returned at a height are a prefix of the lines returned for
\* the same string, width and leading at any greater height.
C8_MonotonicInHeight ==
    (Processed /\ HasWidth /\ HasHeight) =>
        \A h2 \in HeightArgs \ {Undefined} :
            h2 >= height => IsPrefix(lines, _processLines(str, width, h2).lines)

\* A greater height that returns more lines
C8_Witness ==
    /\ Processed /\ HasWidth /\ HasHeight
    /\ Len(lines) >= 1
    /\ \E h2 \in HeightArgs \ {Undefined} :
           h2 > height /\ Len(_processLines(str, width, h2).lines) > Len(lines)

\* C9 (as stated): the returned sequence always has at least one line, and
\* the empty string yields exactly one empty line.
C9_NeverEmpty ==
    Processed => /\ Len(lines) >= 1
                 /\ str = <<>> => lines = << <<>> >>

\* No line fits in the height
NothingFits == HasWidth /\ HasHeight /\ states.textLeading > height

\* C9 (amended): the returned sequence is empty exactly when a width and a
\* height are given and the height is less than the leading; in every other
\* case it has at least one line and the empty string yields one empty line.
C9_EmptyOnlyWhenNothingFits ==
    Processed => /\ Len(lines) = 0 <=> NothingFits
                 /\ (str = <<>> /\ ~NothingFits) => lines = << <<>> >>

\* The empty string processed with a width and a height that holds a line
C9_Witness ==
    /\ Processed /\ HasWidth /\ HasHeight
    /\ str = <<>>
    /\ lines = << <<>> >>

RECURSIVE JoinLines(_)
JoinLines(ls) ==
    IF Len(ls) = 0 THEN <<>>
    ELSE IF Len(ls) = 1 THEN ls[1]
    ELSE ls[1] \o <<"\n">> \o JoinLines(Tail(ls))

\* The string with each tab as two spaces and each \r\n as \n
RECURSIVE Normalized(_)
Normalized(s) ==
    IF s = <<>> THEN <<>>
    ELSE IF Head(s) = "\t" THEN <<" ", " ">> \o Normalized(Tail(s))
    ELSE IF Len(s) > 1 /\ s[1] = "\r" /\ s[2] = "\n" THEN Normalized(Tail(s))
    ELSE <<Head(s)>> \o Normalized(Tail(s))

\* C10: without a width the returned lines are the lines of the split: no
\* line holds a break, the lines joined by breaks are the string with its
\* tabs expanded, and nothing is wrapped, trimmed or truncated even when a
\* height is given; "l1\nl2" yields "l1" and "l2".
C10_NoWidthNoWrap ==
    (pc = "done" /\ ~HasWidth) =>
        /\ err = ""
        /\ commits = <<>>
        /\ \A i \in 1..Len(lines) : ~HasBreak(lines[i])
        /\ Len(lines) >= 1
        /\ JoinLines(lines) = Normalized(str)
        /\ str = <<"l", "1", "\n", "l", "2">>
               => lines = << <<"l", "1">>, <<"l", "2">> >>

\* Lines with whitespace at their ends, more of them than the height holds
C10_Witness ==
    /\ pc = "done" /\ ~HasWidth /\ HasHeight
    /\ Len(lines) > 1
    /\ states.textLeading * Len(lines) > height
    /\ \E i \in 1..Len(lines) : Trim(lines[i]) # lines[i]

-----------------------------------------------------------------------------
(* The setters *)

\* C17: a textSize call with a size no length resolves fails with the
\* invalid-font-size error and leaves the size and the leading as they were.
C17_UnresolvedSizeFails ==
    [][unresolved' =>
          /\ err' = "textSize: invalid font-size"
          /\ states'.textSize = states.textSize
          /\ states'.textLeading = states.textLeading]_vars

\* The domains of the data model
AlignDomain == {LEFT, CENTER, RIGHT, START, END}

BaselineDomain == {TOP, BASELINE, _CTX_MIDDLE, BOTTOM, HANGING, IDEOGRAPHIC}

DirectionDomain == {"ltr", "rtl", "inherit"}

WrapDomain == {WORD, CHAR}

\* C18: after every typed setter the typography state holds values of the
\* domains of the data model only; a call whose argument is not of the domain
\* is rejected with an error, never stored and never silently ignored.
C18_SettersValidate ==
    /\ states.textAlign \in AlignDomain
    /\ states.textBaseline \in BaselineDomain
    /\ states.direction \in DirectionDomain
    /\ states.textWrap \in WrapDomain
    /\ states.textSize # NaN /\ states.textSize > 0
    /\ states.textLeading # NaN

\* C19: a name that is a field of the typography state is never reported as
\* an unknown text option.
C19_StateFieldNeverUnknown ==
    \A i \in 1..Len(warnings) :
        warnings[i] \notin {UnknownOption(f) : f \in DOMAIN states}

\* The calls that are setters
Setters ==
    {"textAlign", "textFont", "textLeading", "textWeight", "textSize",
     "textStyle", "textWrap", "textDirection", "textProperty"}

\* C20: textWrap writes nothing to the context or the canvas style, does not
\* run the apply cycle and leaves the queue as it was; every other setter call
\* that changes the typography state runs the apply cycle before it returns,
\* and leaves the queue empty.
C20_OnlyWrapSkipsApply ==
    [][/\ op' = "textWrap" =>
             /\ ~applied'
             /\ ctx' = ctx
             /\ contextQueue' = contextQueue
             /\ canvasStyle' = canvasStyle
       /\ (op' \in Setters \ {"textWrap"} /\ states' # states) =>
             /\ applied'
             /\ contextQueue' = <<>>]_vars

\* A textWrap call that changed the wrap mode, with the context behind the
\* typography state
C20_Witness ==
    /\ op = "textWrap"
    /\ states.textWrap = CHAR
    /\ ~applied
    /\ ctx.textAlign # states.textAlign

-----------------------------------------------------------------------------
(* Positions and bounds *)

BoundsPaths == {TextBoundsType, FontBoundsType}

\* A bounds call has returned the union of the boxes of two lines or more,
\* every edge of which is a number
Aggregated ==
    /\ pc = "done"
    /\ layout.path \in BoundsPaths
    /\ err = ""
    /\ Len(layout.boxes) > 1
    /\ \A i \in 1..Len(layout.boxes) :
          IsNum(layout.boxes[i].x) /\ IsNum(layout.boxes[i].y)

\* C11: the aggregate of the boxes of the lines is their geometric union: its
\* left edge is the least of their left edges, its top the least of their
\* tops, its right the greatest of their rights and its bottom the greatest
\* of their bottoms, so that it contains every one of them
C11_AggregateIsUnion ==
    Aggregated =>
        LET B == layout.boxes
            U == layout.union
            I == 1..Len(B)
        IN  /\ \A i \in I : /\ U.x <= B[i].x
                            /\ U.y <= B[i].y
                            /\ B[i].x + B[i].w <= U.x + U.w
                            /\ B[i].y + B[i].h <= U.y + U.h
            /\ \E i \in I : U.x = B[i].x
            /\ \E i \in I : U.y = B[i].y
            /\ \E i \in I : U.x + U.w = B[i].x + B[i].w
            /\ \E i \in I : U.y + U.h = B[i].y + B[i].h

\* The union is wider and taller than the box of the first line, to its left
C11_Witness ==
    /\ Aggregated
    /\ layout.union.x < layout.boxes[1].x
    /\ layout.union.w > layout.boxes[1].w
    /\ layout.union.h > layout.boxes[1].h

\* A text or bounds call has returned or thrown
LaidOut == pc = "done" /\ layout.path # "none"

\* The lines the call lays its text out to, in the box the rect mode gives
BlockLines == _processLines(str, layout.box.width, layout.box.height).lines

\* The horizontal offset the call added to the i-th line: from the origin of
\* the block in text, from the box of the line alone in the bounds calls
XOffsetOf(i) ==
    IF layout.path = "text" THEN Minus(layout.lineData[i].x, layout.box.x)
    ELSE Minus(layout.boxes[i].x, layout.raw[i].x)

\* The offset of a block of the width w, in advances, by the alignment
BlockOffset(textAlign, w) ==
    CASE textAlign = CENTER -> (w * Milli) \div 2
      [] textAlign = RIGHT -> w * Milli
      [] OTHER -> 0

\* C12: a call that lays out more than one line in a width w adds to every
\* line the horizontal offset 0 for LEFT and START, w/2 for CENTER and w for
\* RIGHT, in text as in textBounds and fontBounds.
C12_BlockOffset ==
    (/\ LaidOut
     /\ width # Undefined
     /\ Len(BlockLines) > 1
     /\ states.textAlign \in {LEFT, START, CENTER, RIGHT})
    => /\ err = ""
       /\ Len(lines) = Len(BlockLines)
       /\ \A i \in 1..Len(lines) :
             XOffsetOf(i) = BlockOffset(states.textAlign, layout.box.width)

\* C13: a call that lays out exactly one line adds no alignment offset to the
\* x of the line, for every alignment and in text, textBounds and fontBounds.
C13_SingleLineNoOffset ==
    (LaidOut /\ err = "" /\ Len(lines) = 1) => XOffsetOf(1) = 0

\* C15: every text, textBounds and fontBounds call made while the horizontal
\* alignment is END fails with the unsupported-alignment error, whatever the
\* number of lines.
C15_EndAlwaysFails ==
    (LaidOut /\ states.textAlign = END) => err = EndNotSupported

\* The vertical offset the call added to the i-th line: from the i-th
\* multiple of the leading below the origin of the block in text, from the
\* box of the line alone in the bounds calls
YOffsetOf(i) ==
    IF layout.path = "text"
    THEN layout.lineData[i].y
            - (layout.box.y + states.textLeading * (i - 1))
    ELSE layout.boxes[i].y - layout.raw[i].y

\* The space the block leaves in the height of its box
Leftover == layout.box.height - states.textLeading * (Len(lines) - 1)

\* C14: with a height constraint, the vertical offset added to every line is
\* 0 for TOP and BASELINE, half the leftover space, height - leading *
\* (lines - 1), for MIDDLE and all of it for BOTTOM; for HANGING and
\* IDEOGRAPHIC it is 0, a warning is reported and the call does not fail.
C14_VerticalOffset ==
    (LaidOut /\ height # Undefined)
    => /\ err = "" =>
             \A i \in 1..Len(lines) :
                 YOffsetOf(i) =
                     CASE states.textBaseline = _CTX_MIDDLE -> Leftover \div 2
                       [] states.textBaseline = BOTTOM -> Leftover
                       [] OTHER -> 0
       /\ (states.textBaseline \in {HANGING, IDEOGRAPHIC}
             /\ states.textAlign \in {LEFT, CENTER, RIGHT})
          => err = "" /\ warnings # <<>>
       /\ (err = "" /\ states.textBaseline \notin {HANGING, IDEOGRAPHIC})
          => warnings = <<>>

\* A block of two lines or more moved down by half of a leftover space
C14_Witness ==
    /\ LaidOut
    /\ height # Undefined
    /\ err = ""
    /\ states.textBaseline = _CTX_MIDDLE
    /\ Len(lines) > 1
    /\ Leftover > 0
    /\ YOffsetOf(Len(lines)) = Leftover \div 2

\* A block in a height with the baseline HANGING, laid out with a warning
C14_WarnedWitness ==
    /\ LaidOut
    /\ height # Undefined
    /\ err = ""
    /\ states.textBaseline = HANGING
    /\ Len(lines) > 1
    /\ warnings # <<>>

-----------------------------------------------------------------------------
(* The leading guard *)

C16_LeadingWitness ==
    /\ LaidOut
    /\ width # Undefined
    /\ height # Undefined
    /\ states.textLeading # Undefined
    /\ err = ""
    /\ Len(lines) > 1

-----------------------------------------------------------------------------
(* Failures of the text call *)

\* A text call has thrown
TextFailed == pc = "done" /\ layout.path = "text" /\ err # ""

\* C21: a text call that fails, for a missing leading or an unsupported
\* alignment, has drawn no line of its block: every point where it can fail
\* comes before the first line is drawn.
C21_NoPartialRender ==
    TextFailed => layout.rendered = <<>> /\ lines = <<>>

\* A text call whose block has lines failed for the alignment, none drawn
C21_Witness ==
    /\ TextFailed
    /\ err = EndNotSupported
    /\ Len(BlockLines) > 1
    /\ layout.rendered = <<>>

\* A text call failed for the missing leading, none drawn
C21_LeadingWitness ==
    /\ TextFailed
    /\ err = MissingLeading
    /\ layout.rendered = <<>>

\* A text call that returned has drawn every line of its block
C21_DrawnWitness ==
    /\ pc = "done"
    /\ layout.path = "text"
    /\ err = ""
    /\ Len(layout.rendered) > 1
    /\ Len(layout.rendered) = Len(lines)

-----------------------------------------------------------------------------
(* The measuring calls *)

\* C22: textAscent and textDescent of a text that is not empty return the
\* ascent and the descent measured for the text, and of an empty or omitted
\* text the ascent and the descent of the font; neither call fails.
C22_AscentDescent ==
    (pc = "done" /\ layout.path \in {"textAscent", "textDescent"})
    => /\ err = ""
       /\ layout.value =
             CASE layout.path = "textAscent" /\ Len(str) > 0 ->
                     Metrics(str, ctx).actualBoundingBoxAscent
               [] layout.path = "textAscent" ->
                     Metrics(str, ctx).fontBoundingBoxAscent
               [] layout.path = "textDescent" /\ Len(str) > 0 ->
                     Metrics(str, ctx).actualBoundingBoxDescent
               [] OTHER -> Metrics(str, ctx).fontBoundingBoxDescent

-----------------------------------------------------------------------------
(* The apply cycle *)

\* The sites of the assignments of a log of writes, and those made from the
\* queue, in the order in which they were made
Sites(ws) == [i \in 1..Len(ws) |-> ws[i][1]]
IsQueueWrite(w) == w[1] = "queue"
QueueWrites(ws) == SelectSeq(ws, IsQueueWrite)

\* The site that may follow a site in a cycle, or "font" when the next cycle
\* of the same call begins
MayFollow(a, b) ==
    CASE a = "font" -> b = "direction"
      [] a = "direction" -> b = "textAlign"
      [] a = "textAlign" -> b = "textBaseline"
      [] a = "textBaseline" -> b \in {"stretch", "queue", "font"}
      [] a = "stretch" -> b \in {"queue", "font"}
      [] OTHER -> b \in {"queue", "font"}

\* C23: every apply cycle writes to the context in the order font string,
\* direction, align, baseline, stretch, queued properties; no queued property
\* is written before the font string of its cycle.
C23_ApplyOrder ==
    /\ applied => Len(writes) > 0
    /\ Len(writes) > 0 =>
          /\ Sites(writes)[1] = "font"
          /\ Sites(writes)[Len(writes)] \in {"textBaseline", "stretch", "queue"}
          /\ \A i \in 1..(Len(writes) - 1) :
                MayFollow(Sites(writes)[i], Sites(writes)[i + 1])
          /\ \A i \in 1..Len(writes) :
                /\ Sites(writes)[i] \in {"direction", "textAlign", "textBaseline"}
                      => writes[i][3] = states[writes[i][2]]
                /\ Sites(writes)[i] = "stretch"
                      => /\ writes[i][3] = states.fontStretch
                         /\ writes[i][3] \in FontStretchKeys

\* A cycle that wrote the font, the three state properties, the stretch and
\* two queued properties
C23_Witness ==
    /\ applied
    /\ Len(writes) = 7
    /\ Sites(writes)[5] = "stretch"
    /\ Sites(writes)[6] = "queue"
    /\ writes[6][2] # writes[7][2]

\* C24: each apply cycle empties the queue, and writes its entries to the
\* context in the order in which they were queued.
C24_QueueFifo ==
    [][applied' =>
          /\ contextQueue' = <<>>
          /\ Len(QueueWrites(writes')) \in
                {Len(contextQueue), Len(contextQueue) + 1}
          /\ \A i \in 1..Len(contextQueue) :
                /\ QueueWrites(writes')[i][2] = contextQueue[i][1]
                /\ QueueWrites(writes')[i][3] = contextQueue[i][2]]_vars

\* A cycle has drained a queue of two entries for different properties
C24_Witness ==
    /\ applied
    /\ contextQueue = <<>>
    /\ Len(QueueWrites(writes)) = 2
    /\ QueueWrites(writes)[1][2] = "letterSpacing"
    /\ QueueWrites(writes)[2][2] = "direction"

\* C25: a setter queues (name, value) only if the value differs from the
\* value the context holds for the name: every entry a call adds to the queue
\* differs from the context as the call found it.
C25_QueueOnlyIfDiffers ==
    [][\A i \in 1..Len(QueueWrites(writes')) :
          i > Len(contextQueue) =>
              ctx[QueueWrites(writes')[i][2]] # QueueWrites(writes')[i][3]]_vars

\* textProperty has set a property of the context to the value the context
\* held, on a renderer none of whose state or style was ever changed: the
\* cycle ran and wrote nothing from the queue
C25_Witness ==
    /\ op = "textProperty"
    /\ applied
    /\ QueueWrites(writes) = <<>>
    /\ states = RendererTextProps
    /\ canvasStyle = StyleDefaults
    /\ warnings = <<>>

\* The context does not read back the value of the write
Rejected(w) ==
    \/ ~CanvasAccepts(w[2], w[3])
    \/ w[2] = "font" /\ CanvasFont(w[3]) # w[3]

RejectedWrites(ws) == SelectSeq(QueueWrites(ws), Rejected)

IsUnableToSet(msg) == msg = UnableToSet

\* C26: a queued write that the context rejects is reported with a warning
\* and blocks nothing: every other entry of the queue is still written in the
\* same cycle, which returns with the queue empty and without an error.
C26_RejectedDoesNotBlock ==
    [][applied' =>
          /\ contextQueue' = <<>>
          /\ err' = ""
          /\ Len(QueueWrites(writes')) >= Len(contextQueue)
          /\ Len(SelectSeq(warnings', IsUnableToSet))
                = Len(RejectedWrites(writes'))]_vars

\* A cycle has written a queued entry after one that the context rejected
C26_Witness ==
    /\ applied
    /\ contextQueue = <<>>
    /\ Len(QueueWrites(writes)) = 2
    /\ Rejected(QueueWrites(writes)[1])
    /\ ~Rejected(QueueWrites(writes)[2])
    /\ ctx[QueueWrites(writes)[2][2]] = QueueWrites(writes)[2][3]
    /\ warnings = <<UnableToSet>>

\* C27: the stretch is written to the context only if it is one of the nine
\* keywords of the allow-list: whatever textProperty calls were made, calls
\* repeated with the same value included, no assignment to the fontStretch
\* of the context has a value outside the list.
C27_StretchAllowListed ==
    \A i \in 1..Len(writes) :
        writes[i][2] = "fontStretch" => writes[i][3] \in FontStretchKeys

-----------------------------------------------------------------------------
(* The font string *)

\* The font string the last cycle of the last call wrote
IsFontWrite(w) == w[1] = "font"
FontWritten ==
    LET fw == SelectSeq(writes, IsFontWrite) IN fw[Len(fw)][3]

\* The fields of the state that differ from "normal", among style, variant
\* and weight
Keywords ==
    {k \in {"fontStyle", "fontVariant", "fontWeight"} : states[k] # NORMAL}

\* C28: the font string has the fields in the order style, variant, weight,
\* size[/line-height], family; a field of the state that is "normal" is left
\* out; the size and the family are always there.
C28_FontStringOrder ==
    applied =>
        LET f == FontWritten
            n == Len(f)
        IN  /\ n = 2 + Cardinality(Keywords)
            /\ f[n] = _parseFontFamily(states.textFont)
            /\ f[n - 1] = IF states.lineHeight = NORMAL
                          THEN PxString(states.textSize)
                          ELSE PxString(states.textSize) \o "/"
                                   \o states.lineHeight
            /\ \A i \in 1..(n - 2) : f[i] # NORMAL
            /\ states.fontStyle # NORMAL => f[1] = states.fontStyle
            /\ states.fontWeight # NORMAL => f[n - 2] = states.fontWeight
            /\ states.fontVariant # NORMAL =>
                  f[IF states.fontStyle # NORMAL THEN 2 ELSE 1]
                      = states.fontVariant

\* A font string of all five fields, with a line height, has been written
C28_Witness ==
    /\ applied
    /\ Len(FontWritten) = 5
    /\ states.lineHeight # NORMAL
    /\ states.textFont = "Comic Sans MS"

\* A font string of the size and the family alone has been written, the
\* other fields having been set and set back to "normal"
C28_NormalWitness ==
    /\ applied
    /\ op = "textProperty"
    /\ Len(FontWritten) = 2
    /\ Keywords = {}
    /\ canvasStyle = StyleDefaults

\* C29: when the context reads back a font string that differs from the one
\* just written, the apply cycle still writes direction, align, baseline and
\* stretch and drains the queue, no error reaches the caller, and the
\* difference is reported.
C29_SoftFontFailure ==
    (applied /\ ctx.font # FontWritten)
    => /\ err = ""
       /\ contextQueue = <<>>
       /\ \E i \in 1..Len(writes) : writes[i][1] = "textBaseline"
       /\ warnings # <<>>

(* WORD wrapping *)

\* The source lines the wrap is given
SourceLines == _splitOnBreaks(str)

NonEmpty(token) == Len(token) > 0

\* The non-empty tokens of a line, in order
Tokens(line) == SelectSeq(SplitWords(line, <<" ">>), NonEmpty)

\* The tokens of a list of lines, in order
RECURSIVE TokensOf(_)
TokensOf(ls) ==
    IF Len(ls) = 0 THEN <<>> ELSE Tokens(Head(ls)) \o TokensOf(Tail(ls))

\* The output lines fall into consecutive groups, one group of at least one
\* line for each source line, and the tokens of a group are the tokens of its
\* source line
RECURSIVE GroupedBy(_, _)
GroupedBy(out, src) ==
    IF Len(src) = 0 THEN Len(out) = 0
    ELSE \E n \in 1..Len(out) :
             /\ TokensOf(SubSeq(out, 1, n)) = Tokens(Head(src))
             /\ GroupedBy(SubSeq(out, n + 1, Len(out)), Tail(src))

WordWrapped ==
    Processed /\ HasWidth /\ ~HasHeight /\ states.textWrap = WORD

Bounded == pc = "done" /\ layout.path \in BoundsPaths /\ err = ""

\* The width and the height _computeBounds hands to _rectModeAlign: those of
\* the box the rect mode gives, or 0
AlignWidth == OrZero(WidthMilli(layout.box.width))
AlignHeight == OrZero(layout.box.height)

\* C31: the bounds are put back in the rect mode only when they are the union
\* of two lines or more: the box of a single line is returned as it is in
\* every rect mode; of the union, CENTER moves x by half of width - w and y by
\* half of height - h, CORNERS makes w the right edge x + w and h the bottom
\* edge y + h, RADIUS moves as CENTER and then halves w and h, and CORNER
\* changes nothing (in the arithmetic of the code, where an edge that is not
\* a number stays so)
C31_RectModeOnUnionOnly ==
    Bounded =>
        LET u == layout.union
            b == layout.bounds
            cx == Minus(u.x, Half(Minus(AlignWidth, u.w)))
            cy == Minus(u.y, Half(Minus(AlignHeight, u.h)))
        IN  /\ Len(layout.boxes) = 1 =>
                /\ b = layout.boxes[1]
                /\ layout.box.height = Undefined => b = layout.raw[1]
            /\ Len(layout.boxes) > 1 =>
                CASE rectMode = CENTER ->
                        b = [x |-> cx, y |-> cy, w |-> u.w, h |-> u.h]
                  [] rectMode = CORNERS ->
                        b = [x |-> u.x, y |-> u.y,
                             w |-> Plus(u.x, u.w), h |-> Plus(u.y, u.h)]
                  [] rectMode = RADIUS ->
                        b = [x |-> cx, y |-> cy,
                             w |-> Half(u.w), h |-> Half(u.h)]
                  [] OTHER -> b = u

\* The union of several lines in a box, re-anchored by RADIUS
C31_Witness ==
    /\ Bounded
    /\ rectMode = RADIUS
    /\ width # Undefined /\ height # Undefined
    /\ Len(layout.boxes) > 1
    /\ IsNum(layout.union.x) /\ IsNum(layout.union.w)
    /\ layout.bounds.x # layout.union.x
    /\ layout.bounds.w # layout.union.w

\* The box of a single line in a box, under a rect mode that would move it
C31_SingleWitness ==
    /\ Bounded
    /\ rectMode = CENTER
    /\ width # Undefined
    /\ Len(layout.boxes) = 1
    /\ layout.bounds = layout.raw[1]
    /\ _rectModeAlign(layout.bounds, AlignWidth, AlignHeight) # layout.bounds

(* Variable-font settings *)

IsWeightToken(token) == token[1] = "wght"

\* The tokens of the weight axis in a settings value
WeightTokens(value) == SelectSeq(value, IsWeightToken)

\* The number of apply cycles the last call ran
ApplyCycles == Len(SelectSeq(writes, IsFontWrite))

\* C32: of the axes of a variation-settings value only the weight reaches
\* the typography state: the call sets the weight of the state to the number
\* of the (last) wght token when there is one and changes no other field, and
\* with the axes wdth, ital, slnt, opsz and with tags that name no axis it
\* changes no field at all.  The handling ends: it runs the apply cycle once
\* for the call and at most once more for each wght token, and textWeight
\* runs it once.
C32_OnlyWeightFeedsBack ==
    [][/\ op' = "textProperty" =>
           LET value == canvasStyle'.fontVariationSettings
               wt == WeightTokens(value)
           IN  /\ Len(wt) > 0 =>
                      states' = [states EXCEPT
                                    !.fontWeight = Fixed3(wt[Len(wt)][2])]
               /\ Len(wt) = 0 => states' = states
               /\ ApplyCycles' <= 1 + Len(wt)
       /\ op' = "textWeight" =>
           /\ \E w \in VariationWeights :
                 /\ states' = [states EXCEPT !.fontWeight = w]
                 /\ canvasStyle'.fontVariationSettings = << <<"wght", w>> >>
           /\ ApplyCycles' = 1
      ]_vars

\* A settings value with a weight and a width has set the weight, and the
\* stretch of the state is as it was
C32_Witness ==
    /\ op = "textProperty"
    /\ canvasStyle.fontVariationSettings = << <<"wght", "400">>, <<"wdth", "120">> >>
    /\ states.fontWeight = "400"
    /\ states.fontStretch = NORMAL
    /\ ApplyCycles = 2

\* A settings value of another axis has left a weight set before as it was
C32_PassThroughWitness ==
    /\ op = "textProperty"
    /\ canvasStyle.fontVariationSettings = << <<"wdth", "120">> >>
    /\ states.fontWeight = "700"

(* The baseline of the context across a layout call *)

\* C33: a text, textBounds or fontBounds call leaves the textBaseline of the
\* context as it was before the call, which is the baseline of the state,
\* whether the call returns or fails
C33_BaselineKept ==
    LaidOut => ctx.textBaseline = states.textBaseline

\* The baseline is as it was after every call that returns
C33_KeptOnReturn ==
    (LaidOut /\ err = "") => ctx.textBaseline = states.textBaseline

\* A call with a width has returned under the alphabetic baseline, which the
\* line processor replaces by TOP for the time of the call
C33_ReturnWitness ==
    /\ LaidOut /\ err = ""
    /\ width # Undefined
    /\ states.textBaseline = BASELINE
    /\ ctx.textBaseline = BASELINE
    /\ Len(lines) > 0

(* The queue of the module and two renderers *)

OtherOps == {"other.textProperty", "other.textStyle"}

\* The context of the renderer that made the call of a step, before and after
ActorBefore == IF op' \in OtherOps THEN other.ctx ELSE ctx
ActorAfter == IF op' \in OtherOps THEN other'.ctx ELSE ctx'

\* C34: the renderers share the one queue of the module, and every public
\* call on either renderer leaves it empty; so, however the calls of two
\* renderers interleave, a call writes from the queue only what it queued
\* itself, to the context of its own renderer, and the other renderer is as
\* it was
C34_QueueNotShared ==
    [][/\ contextQueue' = <<>>
       /\ Len(QueueWrites(writes')) <= 1
       /\ \A i \in 1..Len(QueueWrites(writes')) :
             LET w == QueueWrites(writes')[i]
             IN  /\ ActorBefore[w[2]] # w[3]
                 /\ ActorAfter[w[2]] = CanvasWrite(ActorBefore, w[2], w[3])[w[2]]
       /\ op' \in OtherOps => <<states', ctx', canvasStyle'>>
                                  = <<states, ctx, canvasStyle>>
       /\ op' \notin OtherOps => other' = other
      ]_vars

\* Both renderers have queued and applied a write, each to its own context
C34_Witness ==
    /\ op \in OtherOps
    /\ QueueWrites(writes) # <<>>
    /\ other.ctx.letterSpacing = "2px"
    /\ ctx.letterSpacing = "0px"
    /\ ctx.fontStretch = "condensed"
    /\ other.ctx.fontStretch = NORMAL
    /\ contextQueue = <<>>

(* The vertical placement of the two paths *)

\* The vertical offsets the text call adds to its lines: from the multiples
\* of the leading below the origin of the block
TextYOffsets(t) ==
    [i \in 1..Len(t.layout.lineData) |->
        Minus(t.layout.lineData[i].y,
              Plus(t.layout.box.y, Times(states.textLeading, i - 1)))]

\* The vertical offsets a bounds call adds to the boxes of its lines
BoundsYOffsets(b) ==
    [i \in 1..Len(b.layout.boxes) |->
        Minus(b.layout.boxes[i].y, b.layout.raw[i].y)]

\* Both paths return for the string, the position, the box and the state of
\* the call made
BothReturn(type) ==
    /\ LaidOut /\ err = ""
    /\ TextCall(layout.x, layout.y).err = ""
    /\ ComputeBounds(type, layout.x, layout.y).err = ""

PathsAgree(type) ==
    TextYOffsets(TextCall(layout.x, layout.y))
        = BoundsYOffsets(ComputeBounds(type, layout.x, layout.y))

\* C35: for the same string, position, box and typography state, text adds
\* to the y of its i-th line the offset that textBounds and fontBounds add to
\* the y of the box of their i-th line, under every baseline, with a height
\* and without
C35_PathsAgreeVertically ==
    \A type \in BoundsPaths : BothReturn(type) => PathsAgree(type)

\* The paths agree whenever a height is given
C35_AgreeWithHeight ==
    \A type \in BoundsPaths :
        (BothReturn(type) /\ height # Undefined) => PathsAgree(type)

(* The leading set as a property *)

\* textProperty has just returned and the leading is one a call gave: it is
\* not the leading derived from the size
LeadingGivenAsProperty ==
    /\ op = "textProperty"
    /\ states.textLeading # TimesLeadingScale(states.textSize)

\* C36: a leading set through textProperty or textProperties is set
\* explicitly: a later change of the size leaves it as it is, as after
\* textLeading
C36_PropertyLatchesLeading ==
    [][(LeadingGivenAsProperty /\ resized')
          => states'.textLeading = states.textLeading]_vars

\* After textLeading the same change of the size leaves the leading
C36_SetterLatchesLeading ==
    [][(op = "textLeading" /\ resized')
          => states'.textLeading = states.textLeading]_vars

(* The numbers of the bounds *)

IsNumberBox(bb) == IsNum(bb.x) /\ IsNum(bb.y) /\ IsNum(bb.w) /\ IsNum(bb.h)

\* The calls of C37: a string with line breaks and no width, or a
\* width and no height
Unboxed ==
    \/ HasBreak(str) /\ width = Undefined
    \/ width # Undefined /\ height = Undefined

\* C37: textBounds and fontBounds of a string with line breaks and no width,
\* and of a block with a width and no height under every rect mode, return a
\* box whose x, y, w and h are numbers, under the alignments LEFT, CENTER,
\* RIGHT and START
C37_BoundsAreNumbers ==
    (Bounded /\ Unboxed /\ states.textAlign \in {LEFT, CENTER, RIGHT, START})
        => IsNumberBox(layout.bounds)

\* The box is of numbers where no offset is computed from a missing width or
\* height: under LEFT and START without a width, and under CORNER and CENTER
\* with a width
C37_NumbersWhereGiven ==
    (/\ Bounded /\ Unboxed
     /\ width = Undefined => states.textAlign \in {LEFT, START}
     /\ width # Undefined => rectMode \in {CORNER, CENTER})
        => IsNumberBox(layout.bounds)

====
